---------------------------- MODULE Spec2Model ----------------------------
(***************************************************************************)
(* taara: snapshots of database tables kept on a pluggable storage engine. *)
(*                                                                         *)
(* The model covers lib/index.ts (storeSnapshot, restoreSnapshot,          *)
(* deleteSnapshot, listSnapshots, getMetadata), lib/API.ts (the            *)
(* identifier, the metadata record, FileBasedStorageEngine and its two     *)
(* backends, the Postgres database engine) and lib/utils.ts.               *)
(*                                                                         *)
(* Strings are sequences of one-character strings, so that filename(),     *)
(* getIdentifier() and splitAtLast() are computed as the code computes     *)
(* them.  Every promise of a pipeline is one action: the action performs   *)
(* the effect of the operation that settles and invokes the next one.      *)
(***************************************************************************)
EXTENDS Integers, Sequences, FiniteSets, TLC

(***************************************************************************)
(* Bounds of the model.                                                    *)
(***************************************************************************)
\* clock ticks (half seconds) the model lets pass
MaxTicks == 1
\* calls of the public operations started in one behaviour
MaxStarted == 2

(***************************************************************************)
(* Strings.                                                                *)
(***************************************************************************)
Digits == <<"0", "1", "2", "3", "4", "5", "6", "7", "8", "9">>

DigitChar(n) == Digits[n + 1]

IsDigit(ch) == \E i \in 1..Len(Digits) : Digits[i] = ch

DigitValue(ch) == (CHOOSE i \in 1..Len(Digits) : Digits[i] = ch) - 1

Pad2(n) == <<DigitChar((n \div 10) % 10), DigitChar(n % 10)>>

Pad4(n) == Pad2(n \div 100) \o Pad2(n % 100)

\* text.substr(from0, count) of JavaScript, from0 counted from 0; a negative
\* count yields the empty string.
Substr(text, from0, count) ==
    LET start == IF from0 < 0 THEN (IF Len(text) + from0 < 0 THEN 0 ELSE Len(text) + from0)
                 ELSE from0
        stop == IF start + count > Len(text) THEN Len(text) ELSE start + count
    IN  IF count <= 0 \/ start >= Len(text) THEN << >> ELSE SubSeq(text, start + 1, stop)

\* text.substr(from0): the rest of the text from position from0
SubstrFrom(text, from0) == Substr(text, from0, Len(text))

\* does sep occur in text at position i (counted from 1)?
OccursAt(text, sep, i) ==
    /\ i >= 1
    /\ i + Len(sep) - 1 <= Len(text)
    /\ SubSeq(text, i, i + Len(sep) - 1) = sep

\* text.lastIndexOf(sep), counted from 0, -1 when sep does not occur
LastIndexOf(text, sep) ==
    LET hits == {i \in 1..Len(text) : OccursAt(text, sep, i)}
    IN  IF hits = {} THEN -1 ELSE (CHOOSE i \in hits : \A j \in hits : j <= i) - 1

\* text.indexOf(sep), counted from 0, -1 when sep does not occur
IndexOf(text, sep) ==
    LET hits == {i \in 1..Len(text) : OccursAt(text, sep, i)}
    IN  IF hits = {} THEN -1 ELSE (CHOOSE i \in hits : \A j \in hits : i <= j) - 1

\* a split at the first occurrence of sep instead
splitAtFirst(text, sep) ==
    LET index == IndexOf(text, sep)
    IN  <<Substr(text, 0, index), SubstrFrom(text, index + 1)>>

\* Utils.splitAtLast
splitAtLast(text, sep) ==
    LET index == LastIndexOf(text, sep)
    IN  <<Substr(text, 0, index), SubstrFrom(text, index + 1)>>

RECURSIVE JoinWith(_, _)
\* Array.prototype.join
JoinWith(names, sep) ==
    IF names = << >> THEN << >>
    ELSE IF Len(names) = 1 THEN names[1]
    ELSE names[1] \o sep \o JoinWith(Tail(names), sep)

RECURSIVE SplitBy(_, _)
\* String.prototype.split with a non-empty separator
SplitBy(text, sep) ==
    LET index == IndexOf(text, sep)
    IN  IF index = -1 THEN <<text>>
        ELSE <<Substr(text, 0, index)>> \o SplitBy(SubstrFrom(text, index + Len(sep)), sep)


(***************************************************************************)
(* Dates.  A moment is a record: valid, the second and the millisecond.    *)
(* Seconds are counted from 2016-02-01T00:00:00Z and the model stays       *)
(* inside February 2016, so the year and the month of a formatted date are *)
(* fixed and the day, hour, minute and second are computed.                *)
(***************************************************************************)
SecondsPerMinute == 6 * 10
SecondsPerHour == SecondsPerMinute * SecondsPerMinute
SecondsPerDay == 24 * SecondsPerHour
DaysInMonth == 28 + 1

InvalidDate == [valid |-> FALSE, sec |-> 0, ms |-> 0]

Moment(sec, ms) == [valid |-> TRUE, sec |-> sec, ms |-> ms]

InvalidDateText == <<"I", "n", "v", "a", "l", "i", "d", " ", "d", "a", "t", "e">>

YearMonthText == <<"2", "0", "1", "6", "0", "2">>

\* date.utc().format(SnapshotIdentifier.DATE_FORMAT), DATE_FORMAT = "YYYYMMDD-HHmmss":
\* the milliseconds are dropped
FormatDate(date) ==
    IF ~date.valid THEN InvalidDateText
    ELSE YearMonthText
         \o Pad2(1 + (date.sec \div SecondsPerDay))
         \o <<"-">>
         \o Pad2((date.sec % SecondsPerDay) \div SecondsPerHour)
         \o Pad2((date.sec % SecondsPerHour) \div SecondsPerMinute)
         \o Pad2(date.sec % SecondsPerMinute)

TwoDigits(text, i) == DigitValue(text[i]) * 10 + DigitValue(text[i + 1])

\* a reading of the text as the local time of a zone one hour behind UTC
ParseDateLocal(text) ==
    IF /\ Len(text) = 15
       /\ text[9] = "-"
       /\ \A i \in (1..15) \ {9} : IsDigit(text[i])
       /\ SubSeq(text, 1, 6) = YearMonthText
       /\ TwoDigits(text, 7) \in 1..DaysInMonth
       /\ TwoDigits(text, 10) < 24
       /\ TwoDigits(text, 12) < SecondsPerMinute
       /\ TwoDigits(text, 14) < SecondsPerMinute
    THEN Moment((TwoDigits(text, 7) - 1) * SecondsPerDay
                + (TwoDigits(text, 10) + 1) * SecondsPerHour
                + TwoDigits(text, 12) * SecondsPerMinute
                + TwoDigits(text, 14), 0)
    ELSE InvalidDate

\* moment.utc(datepart, SnapshotIdentifier.DATE_FORMAT): a text of the form
\* YYYYMMDD-HHmmss is read as UTC, to the second; any other text gives an
\* invalid moment (no exception is thrown).
ParseDate(text) ==
    IF /\ Len(text) = 15
       /\ text[9] = "-"
       /\ \A i \in (1..15) \ {9} : IsDigit(text[i])
       /\ SubSeq(text, 1, 6) = YearMonthText
       /\ TwoDigits(text, 7) \in 1..DaysInMonth
       /\ TwoDigits(text, 10) < 24
       /\ TwoDigits(text, 12) < SecondsPerMinute
       /\ TwoDigits(text, 14) < SecondsPerMinute
    THEN Moment((TwoDigits(text, 7) - 1) * SecondsPerDay
                + TwoDigits(text, 10) * SecondsPerHour
                + TwoDigits(text, 12) * SecondsPerMinute
                + TwoDigits(text, 14), 0)
    ELSE InvalidDate

(***************************************************************************)
(* SnapshotIdentifier and StorageMetadata (lib/API.ts).                    *)
(***************************************************************************)
\* a separator of one hyphen
HyphenSeparator == <<"-">>

\* a separator with an arrow head
ArrowSeparator == <<"-", "-", ">">>

\* the separator of the table names in a filename
NameSeparator == <<"-", "-">>

Dot == <<".">>

SnapshotExtension == <<".", "s", "n", "a", "p", "s", "h", "o", "t">>

NoExtension == << >>

SnapshotIdentifier(tablenames, date) == [tablenames |-> tablenames, date |-> date]

\* SnapshotIdentifier.filename(extension)
filename(identifier, extension) ==
    JoinWith(identifier.tablenames, NameSeparator) \o Dot
        \o FormatDate(identifier.date) \o extension

\* getIdentifier(filename)
getIdentifier(name) ==
    LET parts == splitAtLast(name, Dot)
    IN  SnapshotIdentifier(SplitBy(parts[1], NameSeparator), ParseDate(parts[2]))

\* JavaScript values of stats and metadata objects are tagged records;
\* [t |-> "undef"] is the value undefined.
StringValue(text) == [t |-> "str", v |-> text]
NumberValue(n) == [t |-> "num", v |-> n]
ArrayValue(items) == [t |-> "arr", v |-> items]
ObjectValue(fields) == [t |-> "obj", v |-> fields]
Null == [t |-> "null"]
Undefined == [t |-> "undef"]

IsUndefined(value) == value.t = "undef"

\* a serialisation that loses what is nested in a value
JsonValueFlat(value) == IF value.t \in {"arr", "obj"} THEN Null ELSE value

\* JSON.stringify followed by JSON.parse on a value: an element of an array
\* that is undefined comes back as null, a property of an object whose value
\* is undefined is not written, every other value comes back as it was.
RECURSIVE JsonValue(_)
JsonValue(value) ==
    IF value.t = "arr"
    THEN ArrayValue([i \in 1..Len(value.v) |->
                        IF IsUndefined(value.v[i]) THEN Null ELSE JsonValue(value.v[i])])
    ELSE IF value.t = "obj"
    THEN ObjectValue([k \in {p \in DOMAIN value.v : ~IsUndefined(value.v[p])} |->
                         JsonValue(value.v[k])])
    ELSE value

\* JSON.stringify followed by JSON.parse on the object of stats or metadata
JsonRoundTrip(object) ==
    [k \in {p \in DOMAIN object : ~IsUndefined(object[p])} |-> JsonValue(object[k])]

\* a document that forgets the caller's metadata
toJSONWithoutMetadata(data) ==
    [type |-> "json",
     identifier |-> filename(data.identifier, NoExtension),
     metadata |-> JsonRoundTrip(data.stats),
     stats |-> JsonRoundTrip(data.stats)]

\* StorageMetadata.toJSON: the document written for a metadata record
toJSON(data) ==
    [type |-> "json",
     identifier |-> filename(data.identifier, NoExtension),
     metadata |-> JsonRoundTrip(data.metadata),
     stats |-> JsonRoundTrip(data.stats)]

\* StorageMetadata.fromJson
fromJson(json) ==
    [identifier |-> getIdentifier(json.identifier),
     stats |-> json.stats,
     metadata |-> json.metadata]

\* Utils.arrayify: a single table name becomes a list of one name
arrayify(tables) == IF tables.single THEN <<tables.name>> ELSE tables.names

(***************************************************************************)
(* Inputs.                                                                 *)
(***************************************************************************)
TableA == <<"a">>
TableB == <<"b">>
\* one table whose name holds the separator of filename()
TableAB == <<"a", "-", "-", "b">>

TableNames == {TableA, TableB, TableAB}

\* values of the `userMetadata` argument of storeSnapshot
MetaMy == [my |-> StringValue("metadata")]
MetaOffset ==
    [offset |-> ArrayValue(<<NumberValue(1), NumberValue(2), NumberValue(3)>>),
     gone |-> Undefined]

\* the arguments of the storeSnapshot calls of the model: one table given
\* as a string, two tables, one table whose name holds "--", and no table
StoreArgs ==
    {[tables |-> [single |-> TRUE, name |-> TableA, names |-> << >>],
      userMetadata |-> MetaMy],
     [tables |-> [single |-> FALSE, name |-> << >>, names |-> <<TableA, TableB>>],
      userMetadata |-> MetaOffset],
     [tables |-> [single |-> FALSE, name |-> << >>, names |-> <<TableAB>>],
      userMetadata |-> MetaMy],
     [tables |-> [single |-> FALSE, name |-> << >>, names |-> << >>],
      userMetadata |-> MetaMy]}

\* the second at which a behaviour begins: 2016-02-01T23:59:59Z
StartSecond == SecondsPerDay - 1

(***************************************************************************)
(* Files.  A path is a record of a folder and a name; a file system or a   *)
(* bucket is a function from the paths that exist to their content.        *)
(***************************************************************************)
NoFiles == [p \in {} |-> [type |-> "empty"]]

Exists(files, p) == p \in DOMAIN files

\* a write that leaves a file that exists as it is
PutIfAbsent(files, p, content) ==
    [q \in DOMAIN files \cup {p} |-> IF q \in DOMAIN files THEN files[q] ELSE content]

Put(files, p, content) ==
    [q \in DOMAIN files \cup {p} |-> IF q = p THEN content ELSE files[q]]

Remove(files, p) == [q \in DOMAIN files \ {p} |-> files[q]]

NamesIn(files, folder) == {p.name : p \in {q \in DOMAIN files : q.folder = folder}}

EmptyFile == [type |-> "empty"]
PartialFile == [type |-> "partial"]
DumpFile(tables) == [type |-> "dump", tables |-> tables]

\* the world the engines act on: the local disk, the directories of the
\* storage root on it, and the bucket
World(d, ds, b) == [disk |-> d, dirs |-> ds, bucket |-> b]

Fulfilled(value, w) == [ok |-> TRUE, value |-> value, world |-> w]
Rejected(reason, w) == [ok |-> FALSE, value |-> reason, world |-> w]

\* all orders in which the elements of a finite set can be listed
RECURSIVE Orderings(_)
Orderings(S) ==
    IF S = {} THEN {<< >>}
    ELSE UNION {{<<x>> \o rest : rest \in Orderings(S \ {x})} : x \in S}

\* the names of a directory listing, as FileDescriptors
Descriptor(name) ==
    LET parts == splitAtLast(name, Dot)
    IN  [filename |-> parts[1], extension |-> parts[2]]

(***************************************************************************)
(* FileSystemEngine (lib/API.ts).  io is what the environment does to the  *)
(* operation: "ok", or "fault" when a write is refused (disk full, no      *)
(* permission) before it has any effect.  Reading and unlinking a path     *)
(* fail when the path does not exist.                                      *)
(***************************************************************************)
\* fs.unlink
Unlink(disk, p) ==
    IF Exists(disk, p) THEN [ok |-> TRUE, disk |-> Remove(disk, p)]
    ELSE [ok |-> FALSE, disk |-> disk]

\* a createdir that makes no directory
FsCreatedirOmitted(w, p, mkdir) == w

\* FileSystemEngine.createdir: mkdirSync of the parent, every error ignored.
\* mkdir is "ok", or "fault" when the directory cannot be made (it exists
\* already, or the root is missing or may not be written)
FsCreatedir(w, p, mkdir) ==
    [w EXCEPT !.dirs = IF mkdir = "ok" THEN @ \cup {p.folder} ELSE @]

\* FileSystemEngine.delete
FsDelete(w, p) ==
    LET r == Unlink(w.disk, p)
    IN  IF r.ok THEN Fulfilled(Undefined, [w EXCEPT !.disk = r.disk])
        ELSE Rejected("ENOENT", w)

\* a filter that keeps the names without an extension instead
KeepDescriptorInverted(d) == d.extension = << >>

\* the filter of FileSystemEngine.ls
KeepDescriptor(d) == d.extension # << >>

\* an ls that gives no entries for a directory that does not exist
FsLsOfMissingEmpty(w, folder, order) ==
    IF folder \notin w.dirs THEN Fulfilled(<< >>, w)
    ELSE Fulfilled(SelectSeq([i \in 1..Len(order) |-> Descriptor(order[i])],
                             KeepDescriptor), w)

\* FileSystemEngine.ls; order is the order in which readdir gives the names
FsLs(w, folder, order) ==
    IF folder \notin w.dirs THEN Rejected("ENOENT", w)
    ELSE Fulfilled(SelectSeq([i \in 1..Len(order) |-> Descriptor(order[i])],
                             KeepDescriptor), w)

\* FileSystemEngine.readContents
FsReadContents(w, p) ==
    IF Exists(w.disk, p) THEN Fulfilled(w.disk[p], w) ELSE Rejected("ENOENT", w)

\* a copyFileToLocalDisk that copies the file to the destination, as the S3
\* engine does
FsCopyFileToLocalDiskCopying(w, source, potentialDestination) ==
    IF ~Exists(w.disk, source) THEN Rejected("ENOENT", w)
    ELSE Fulfilled(potentialDestination,
                   [w EXCEPT !.disk = Put(@, potentialDestination, w.disk[source])])

\* FileSystemEngine.copyFileToLocalDisk
FsCopyFileToLocalDisk(w, source, potentialDestination) == Fulfilled(source, w)

\* a write that is refused after it has replaced the file
FsUploadDataDespiteFailure(w, p, contents, io) ==
    IF p.folder \notin w.dirs THEN Rejected("EIO", w)
    ELSE IF io = "ok" THEN Fulfilled(Undefined, [w EXCEPT !.disk = Put(@, p, contents)])
    ELSE Rejected("EIO", [w EXCEPT !.disk = Put(@, p, contents)])

\* FileSystemEngine.uploadData, after its createdir: fs.writeFile
FsUploadData(w, p, contents, io) ==
    IF io = "ok" /\ p.folder \in w.dirs
    THEN Fulfilled(Undefined, [w EXCEPT !.disk = Put(@, p, contents)])
    ELSE Rejected("EIO", w)

\* an upload that creates the destination and copies nothing into it
FsUploadFileTruncated(w, destination, source, io) ==
    IF io # "ok" \/ destination.folder \notin w.dirs THEN Rejected("EIO", w)
    ELSE IF ~Exists(w.disk, source)
    THEN Rejected("ENOENT", [w EXCEPT !.disk = Put(@, destination, EmptyFile)])
    ELSE Fulfilled(Undefined, [w EXCEPT !.disk = Put(@, destination, EmptyFile)])

\* FileSystemEngine.uploadFile, after its createdir: the read stream piped
\* into the write stream.  The write stream creates the destination even
\* when the source cannot be opened.
FsUploadFile(w, destination, source, io) ==
    IF io # "ok" \/ destination.folder \notin w.dirs THEN Rejected("EIO", w)
    ELSE IF ~Exists(w.disk, source)
    THEN Rejected("ENOENT", [w EXCEPT !.disk = Put(@, destination, EmptyFile)])
    ELSE Fulfilled(Undefined, [w EXCEPT !.disk = Put(@, destination, w.disk[source])])

(***************************************************************************)
(* S3StorageEngine (lib/API.ts).  io is "ok", "fault" when the request     *)
(* fails without effect, or "partial" when a download breaks off after     *)
(* part of the local file was written.                                     *)
(***************************************************************************)
\* S3StorageEngine.ls: the objects under the prefix, no filter
S3Ls(w, folder, order, io) ==
    IF io # "ok" THEN Rejected("fault", w)
    ELSE Fulfilled([i \in 1..Len(order) |-> Descriptor(order[i])], w)

\* a delete request that removes the object although it reports a failure
S3DeleteDespiteFailure(w, key, io) ==
    IF io # "ok" THEN Rejected("fault", [w EXCEPT !.bucket = Remove(@, key)])
    ELSE Fulfilled(Undefined, [w EXCEPT !.bucket = Remove(@, key)])

\* S3StorageEngine.delete: deleteObject succeeds whether or not the key exists
S3Delete(w, key, io) ==
    IF io # "ok" THEN Rejected("fault", w)
    ELSE Fulfilled(Undefined, [w EXCEPT !.bucket = Remove(@, key)])

\* S3StorageEngine.readContents
S3ReadContents(w, key, io) ==
    IF io # "ok" THEN Rejected("fault", w)
    ELSE IF ~Exists(w.bucket, key) THEN Rejected("NoSuchKey", w)
    ELSE Fulfilled(w.bucket[key], w)

\* a download that removes the object it has copied
S3CopyFileToLocalDiskMoving(w, source, localPath, io) ==
    IF ~Exists(w.bucket, source) THEN Rejected("NoSuchKey", w)
    ELSE IF io # "ok" THEN Rejected("fault", w)
    ELSE Fulfilled(localPath, [w EXCEPT !.disk = Put(@, localPath, w.bucket[source]),
                                        !.bucket = Remove(@, source)])

\* S3StorageEngine.copyFileToLocalDisk
S3CopyFileToLocalDisk(w, source, localPath, io) ==
    IF ~Exists(w.bucket, source) THEN Rejected("NoSuchKey", w)
    ELSE IF io = "partial"
    THEN Rejected("fault", [w EXCEPT !.disk = Put(@, localPath, PartialFile)])
    ELSE IF io # "ok" THEN Rejected("fault", w)
    ELSE Fulfilled(localPath, [w EXCEPT !.disk = Put(@, localPath, w.bucket[source])])

\* S3StorageEngine.saveStream
S3SaveStream(w, key, body, io) ==
    IF io # "ok" THEN Rejected("fault", w)
    ELSE Fulfilled(Undefined, [w EXCEPT !.bucket = Put(@, key, body)])

\* S3StorageEngine.uploadData
S3UploadData(w, key, data, io) == S3SaveStream(w, key, data, io)

\* S3StorageEngine.uploadFile
S3UploadFile(w, key, localPath, io) ==
    IF ~Exists(w.disk, localPath) THEN Rejected("ENOENT", w)
    ELSE S3SaveStream(w, key, w.disk[localPath], io)

(***************************************************************************)
(* FileBasedStorageEngine (lib/API.ts): the seven operations of a storage  *)
(* engine on top of the primitives of the backend b ("fs" or "s3").        *)
(***************************************************************************)
MetadataFolder == "metadata"
SnapshotFolder == "snapshot"

\* FileBasedStorageEngine.path(folder, identifier): filename() is called
\* without an extension argument, so both folders use ".snapshot"
path(folder, identifier) ==
    [folder |-> folder, name |-> filename(identifier, SnapshotExtension)]

\* the files the backend holds
Stored(b, w) ==
    LET files == IF b = "fs" THEN w.disk ELSE w.bucket
    IN  [p \in {q \in DOMAIN files : q.folder \in {MetadataFolder, SnapshotFolder}}
            |-> files[p]]

\* the orders in which the backend may list a folder
ListingOrders(b, w, folder) == Orderings(NamesIn(Stored(b, w), folder))

\* what a storage operation does when it is invoked, before it is pending:
\* the file system backend creates the folder of a write synchronously
InvokeWrite(b, w, p, mkdir) == IF b = "fs" THEN FsCreatedir(w, p, mkdir) ELSE w

\* FileBasedStorageEngine.list
list(b, w, order, io) ==
    LET files == IF b = "fs" THEN FsLs(w, MetadataFolder, order)
                 ELSE S3Ls(w, MetadataFolder, order, io)
    IN  IF files.ok
        THEN Fulfilled([i \in 1..Len(files.value) |->
                            getIdentifier(files.value[i].filename)], w)
        ELSE files

\* FileBasedStorageEngine.loadSnapshot
loadSnapshot(b, w, identifier, outfile, io) ==
    IF b = "fs" THEN FsCopyFileToLocalDisk(w, path(SnapshotFolder, identifier), outfile)
    ELSE S3CopyFileToLocalDisk(w, path(SnapshotFolder, identifier), outfile, io)

\* FileBasedStorageEngine.loadMetadata
loadMetadata(b, w, identifier, io) ==
    LET contents == IF b = "fs" THEN FsReadContents(w, path(MetadataFolder, identifier))
                    ELSE S3ReadContents(w, path(MetadataFolder, identifier), io)
    IN  IF ~contents.ok THEN contents
        ELSE IF contents.value.type # "json" THEN Rejected("SyntaxError", w)
        ELSE Fulfilled(fromJson(contents.value), w)

\* a saveSnapshot that is fulfilled without writing the entry
saveSnapshotUnwritten(b, w, identifier, snapshotPath, io) ==
    IF io = "ok" THEN Fulfilled(Undefined, w) ELSE Rejected("fault", w)

\* FileBasedStorageEngine.saveSnapshot
saveSnapshot(b, w, identifier, snapshotPath, io) ==
    IF b = "fs" THEN FsUploadFile(w, path(SnapshotFolder, identifier), snapshotPath, io)
    ELSE S3UploadFile(w, path(SnapshotFolder, identifier), snapshotPath, io)

\* a saveMetadata that returns the record as read back from the document
saveMetadataReturningDocument(b, w, metadata, io) ==
    LET r == IF b = "fs"
             THEN FsUploadData(w, path(MetadataFolder, metadata.identifier),
                               toJSON(metadata), io)
             ELSE S3UploadData(w, path(MetadataFolder, metadata.identifier),
                               toJSON(metadata), io)
    IN  IF r.ok THEN Fulfilled(fromJson(toJSON(metadata)), r.world) ELSE r

\* FileBasedStorageEngine.saveMetadata
saveMetadata(b, w, metadata, io) ==
    LET r == IF b = "fs"
             THEN FsUploadData(w, path(MetadataFolder, metadata.identifier),
                               toJSON(metadata), io)
             ELSE S3UploadData(w, path(MetadataFolder, metadata.identifier),
                               toJSON(metadata), io)
    IN  IF r.ok THEN Fulfilled(metadata, r.world) ELSE r

\* FileBasedStorageEngine.deleteSnapshot
deleteSnapshot(b, w, identifier, io) ==
    IF b = "fs" THEN FsDelete(w, path(SnapshotFolder, identifier))
    ELSE S3Delete(w, path(SnapshotFolder, identifier), io)

\* a deleteMetadata that deletes the snapshot entry instead
deleteMetadataOfSnapshot(b, w, identifier, io) ==
    IF b = "fs" THEN FsDelete(w, path(SnapshotFolder, identifier))
    ELSE S3Delete(w, path(SnapshotFolder, identifier), io)

\* FileBasedStorageEngine.deleteMetadata
deleteMetadata(b, w, identifier, io) ==
    IF b = "fs" THEN FsDelete(w, path(MetadataFolder, identifier))
    ELSE S3Delete(w, path(MetadataFolder, identifier), io)

(***************************************************************************)
(* PostgresEngine (lib/API.ts).  outcome is how the external tool ends:    *)
(* "ok", "fault" (it cannot connect or cannot be spawned) or, for pg_dump, *)
(* "partial" (it exits with an error after it began to write its output).  *)
(***************************************************************************)
\* the tables pg_dump writes: those named by its -t switches, or every table
\* of the database when there is no -t switch
DumpedTables(database, tables) ==
    IF tables = << >> THEN SelectSeq(<<TableA, TableB, TableAB>>, LAMBDA t : t \in database)
    ELSE tables

\* PostgresEngine.dump: pg_dump -t <table>... -f outpath
dump(database, w, tables, outpath, outcome) ==
    IF outcome = "partial"
    THEN Rejected("Could not dump tables", [w EXCEPT !.disk = Put(@, outpath, PartialFile)])
    ELSE IF outcome # "ok" \/ \E i \in 1..Len(tables) : tables[i] \notin database
    THEN Rejected("Could not dump tables", w)
    ELSE Fulfilled(Undefined,
                   [w EXCEPT !.disk = Put(@, outpath,
                                          DumpFile(DumpedTables(database, tables)))])

\* the tables a dump file restores
RestoredTables(w, dumpPath) ==
    {w.disk[dumpPath].tables[i] : i \in 1..Len(w.disk[dumpPath].tables)}

\* PostgresEngine.restore: pg_restore --exit-on-error --single-transaction;
\* the result carries the tables of the database after the run
restore(database, w, dumpPath, outcome) ==
    IF \/ outcome # "ok"
       \/ ~Exists(w.disk, dumpPath)
       \/ w.disk[dumpPath].type # "dump"
    THEN [ok |-> FALSE, value |-> "Could not restore dump", database |-> database]
    ELSE IF RestoredTables(w, dumpPath) \cap database # {}
    THEN [ok |-> FALSE, value |-> "Could not restore dump", database |-> database]
    ELSE [ok |-> TRUE, value |-> Undefined,
          database |-> database \cup RestoredTables(w, dumpPath)]

(***************************************************************************)
(* The promise chains of lib/index.ts.                                     *)
(***************************************************************************)
\* a chain that goes on to the next step after a failed one
StoreNextNoAbort(step, ok) ==
    IF step = "dump" THEN "saveSnapshot"
    ELSE IF step = "saveSnapshot" THEN "saveMetadata"
    ELSE "unlink"

\* a chain that saves the metadata before the snapshot
StoreNextSwapped(step, ok) ==
    IF ~ok THEN "unlink"
    ELSE IF step = "dump" THEN "saveMetadata"
    ELSE IF step = "saveMetadata" THEN "saveSnapshot"
    ELSE "unlink"

\* storeSnapshot: dump .then saveSnapshot .then saveMetadata .finally unlink
StoreNext(step, ok) ==
    IF ~ok THEN "unlink"
    ELSE IF step = "dump" THEN "saveSnapshot"
    ELSE IF step = "saveSnapshot" THEN "saveMetadata"
    ELSE "unlink"

\* a chain that goes on to the database restore after a failed loadMetadata
RestoreNextNoAbort(step, ok) ==
    IF step = "loadMetadata" THEN (IF ok THEN "loadSnapshot" ELSE "restore")
    ELSE IF step = "loadSnapshot" /\ ok THEN "restore"
    ELSE "unlink"

\* restoreSnapshot: loadMetadata .then loadSnapshot .then restore .finally unlink
RestoreNext(step, ok) ==
    IF ~ok THEN "unlink"
    ELSE IF step = "loadMetadata" THEN "loadSnapshot"
    ELSE IF step = "loadSnapshot" THEN "restore"
    ELSE "unlink"

\* a chain that goes on to deleteSnapshot after a failed deleteMetadata
DeleteNextNoAbort(step, ok) ==
    IF step = "deleteMetadata" THEN "deleteSnapshot" ELSE "done"

\* a chain that invokes deleteMetadata again when it has failed
DeleteNextRetrying(step, ok) ==
    IF step = "deleteMetadata" THEN (IF ok THEN "deleteSnapshot" ELSE "deleteMetadata")
    ELSE "done"

\* deleteSnapshot: deleteMetadata .then deleteSnapshot
DeleteNext(step, ok) ==
    IF ok /\ step = "deleteMetadata" THEN "deleteSnapshot" ELSE "done"

\* a cleanup that removes nothing
tryUnlinkForgotten(disk, p) == [ok |-> TRUE, unlinked |-> FALSE, disk |-> disk]

\* a cleanup without the catch: nodefn.call(fs.unlink, path)
tryUnlinkNoCatch(disk, p) ==
    LET r == Unlink(disk, p)
    IN  [ok |-> r.ok, unlinked |-> r.ok, disk |-> r.disk]

\* Utils.tryUnlink: nodefn.call(fs.unlink, path).catch(() => undefined)
tryUnlink(disk, p) ==
    LET r == Unlink(disk, p)
    IN  [ok |-> TRUE, unlinked |-> r.ok, disk |-> r.disk]

\* promise.finally(handler): the promise's own outcome, unless the handler's
\* promise is rejected
Finally(pipelineOk, handlerOk) ==
    [settled |-> IF pipelineOk /\ handlerOk THEN "fulfilled" ELSE "rejected",
     masked |-> ~handlerOk]

\* the directory of the temporary files when tempFileOptions has no dir
\* (os.tmpdir()), and the directory given to setTempDir
DefaultTempDir == "tmp"
TempDirs == {"p"}

\* the same name for every call
TempPathFixed(options, n) ==
    [folder |-> IF options.dir = "none" THEN DefaultTempDir ELSE options.dir,
     name |-> <<"t">> \o Pad2(0)]

\* a fresh name in the default directory, whatever the options say
TempPathInDefaultDir(options, n) == [folder |-> DefaultTempDir, name |-> <<"t">> \o Pad2(n)]

\* temp.path(tempFileOptions): a fresh name in the directory of the options
TempPath(options, n) ==
    [folder |-> IF options.dir = "none" THEN DefaultTempDir ELSE options.dir,
     name |-> <<"t">> \o Pad2(n)]

(***************************************************************************)
(* State.                                                                  *)
(***************************************************************************)
VARIABLES
    backend,    \* the storage engine in use: "fs" or "s3"
    clock,      \* the current time: second and millisecond
    ticks,      \* the clock ticks that have passed
    disk,       \* the local file system: temporary files, and the files of the fs backend
    dirs,       \* the folders that exist under the root of the fs backend
    bucket,     \* the objects of the s3 backend
    db,         \* the tables that exist in the database
    calls,      \* the calls of the public operations, by slot
    started,    \* the number of calls started so far
    codec,      \* the conversion under way: its input and what it gave so far
    tempFileOptions \* the options of temp.path: dir is "none" until setTempDir

vars ==
    <<backend, clock, ticks, disk, dirs, bucket, db, calls, started, codec,
      tempFileOptions>>

NoValue == [none |-> TRUE]

Event(step, what) == <<step, what>>

\* a slot that holds no call
NoCall ==
    [kind |-> "none", seq |-> 0, pc |-> "idle",
     tables |-> << >>, userMetadata |-> NoValue, identifier |-> NoValue,
     tempPath |-> NoValue, pending |-> NoValue, storageMetadata |-> NoValue,
     localPath |-> NoValue, failedAt |-> "none", reason |-> "none",
     value |-> NoValue, settled |-> "pending", unlinked |-> "none",
     trace |-> << >>, emptyAtStart |-> FALSE]

\* two callers: a call is in flight or remembered in the slot of its caller
Slots == {1, 2}

\* an identifier under which nothing is ever stored
UnknownIdentifier == SnapshotIdentifier(<<TableB>>, Moment(StartSecond, 0))

\* an identifier the caller makes with new SnapshotIdentifier(["a--b"], date):
\* its filename is the filename of the identifier of ["a", "b"] at that date
JoinedIdentifier == SnapshotIdentifier(<<TableAB>>, Moment(StartSecond, 0))

\* the `identifier` argument of restoreSnapshot, deleteSnapshot and
\* getMetadata: the identifier of a storeSnapshot call, an identifier that
\* listSnapshots returned, or an identifier made by the caller
IdentifierArgs ==
    {calls[j].identifier : j \in {k \in Slots : calls[k].kind = "store"}}
    \cup UNION {{calls[j].value[n] : n \in 1..Len(calls[j].value)} :
                   j \in {k \in Slots : calls[k].kind = "list"
                                            /\ calls[k].settled = "fulfilled"}}
    \cup {UnknownIdentifier}

W == World(disk, dirs, bucket)

SetWorld(w) ==
    /\ disk' = w.disk
    /\ dirs' = w.dirs
    /\ bucket' = w.bucket

InFlight(c) == c.pc \notin {"idle", "done"}

\* a new call takes an empty slot, or else the slot of the oldest settled call
CanStart(i) ==
    /\ started < MaxStarted
    /\ ~InFlight(calls[i])
    /\ \A j \in Slots : ~InFlight(calls[j]) =>
           \/ calls[i].seq < calls[j].seq
           \/ (calls[i].seq = calls[j].seq /\ i <= j)

WriteOutcomes == {"ok", "fault"}

\* what the environment can do to a request of the backend that reads or deletes
RequestOutcomes(b) == IF b = "fs" THEN {"ok"} ELSE {"ok", "fault"}

DownloadOutcomes(b) == IF b = "fs" THEN {"ok"} ELSE {"ok", "fault", "partial"}

DumpOutcomes == {"ok", "fault", "partial"}

RestoreOutcomes == {"ok", "fault"}

Init ==
    /\ backend \in {"fs", "s3"}
    /\ clock = [sec |-> StartSecond, ms |-> 0]
    /\ ticks = 0
    /\ disk = NoFiles
    /\ dirs = {}
    /\ bucket = NoFiles
    /\ db = TableNames
    /\ calls = [i \in Slots |-> NoCall]
    /\ started = 0
    /\ codec = NoValue
    /\ tempFileOptions = [prefix |-> "taara-restore-", dir |-> "none"]

(***************************************************************************)
(* The environment.                                                        *)
(***************************************************************************)
\* half a second passes
Tick ==
    /\ ticks < MaxTicks
    /\ ticks' = ticks + 1
    /\ clock' = IF clock.ms = 0 THEN [clock EXCEPT !.ms = 500]
                ELSE [sec |-> clock.sec + 1, ms |-> 0]
    /\ UNCHANGED <<tempFileOptions, codec, backend, disk, dirs, bucket, db, calls, started>>

\* the user of the database drops the tables (DROP TABLE ... CASCADE)
DropTables ==
    /\ db # {}
    /\ db' = {}
    /\ UNCHANGED <<tempFileOptions, codec, backend, clock, ticks, disk, dirs, bucket, calls, started>>

(***************************************************************************)
(* setTempDir (lib/index.ts).                                              *)
(***************************************************************************)
\* setTempDir(dirPath)
setTempDir(dirPath) ==
    /\ tempFileOptions' = [tempFileOptions EXCEPT !.dir = dirPath]
    /\ UNCHANGED <<codec, backend, clock, ticks, disk, dirs, bucket, db, calls, started>>

(***************************************************************************)
(* storeSnapshot (lib/index.ts).                                           *)
(***************************************************************************)
\* the record a settled step leaves in its call: the outcome of the step and
\* the step the chain invokes next
Advance(c, step, ok, value, next) ==
    [c EXCEPT !.pc = next,
              !.failedAt = IF ok THEN @ ELSE step,
              !.reason = IF ok THEN @ ELSE value,
              !.value = IF ok THEN value ELSE @,
              !.trace = @ \o <<Event(step, IF ok THEN "ok" ELSE "fail")>>
                          \o (IF next = "done" THEN << >> ELSE <<Event(next, "begin")>>)]

\* the record a settled call leaves
Settle(c, f) ==
    [c EXCEPT !.settled = f.settled,
              !.reason = IF f.masked THEN "unlink" ELSE @]

\* the synchronous part of the storage operation that `next` invokes
StoreInvoke(c, next, w, mkdir) ==
    IF next = "saveSnapshot"
    THEN InvokeWrite(backend, w, path(SnapshotFolder, c.identifier), mkdir)
    ELSE IF next = "saveMetadata"
    THEN InvokeWrite(backend, w, path(MetadataFolder, c.identifier), mkdir)
    ELSE w

\* storedData of storeSnapshot
StoredData(c) == [identifier |-> c.identifier, stats |-> << >>, metadata |-> c.userMetadata]

\* storeSnapshot is called: the identifier and the temporary path are made
\* and dbEngine.dump is invoked
StartStore(i, tables, userMetadata) ==
    /\ CanStart(i)
    /\ started' = started + 1
    /\ calls' = [calls EXCEPT ![i] =
           [NoCall EXCEPT !.kind = "store", !.seq = started + 1, !.pc = "dump",
                          !.tables = arrayify(tables),
                          !.userMetadata = userMetadata,
                          !.identifier = SnapshotIdentifier(arrayify(tables),
                                                            Moment(clock.sec, clock.ms)),
                          !.tempPath = TempPath(tempFileOptions, started + 1),
                          !.trace = <<Event("dump", "begin")>>,
                          !.emptyAtStart = (DOMAIN Stored(backend, W) = {})]]
    /\ UNCHANGED <<tempFileOptions, codec, backend, clock, ticks, disk, dirs, bucket, db>>

\* dbEngine.dump settles; when it is fulfilled saveSnapshot is invoked
StoreDump(i, outcome, mkdir) ==
    /\ calls[i].kind = "store" /\ calls[i].pc = "dump"
    /\ LET c == calls[i]
           r == dump(db, W, c.tables, c.tempPath, outcome)
           next == StoreNext("dump", r.ok)
       IN  /\ SetWorld(StoreInvoke(c, next, r.world, mkdir))
           /\ calls' = [calls EXCEPT ![i] = Advance(c, "dump", r.ok, r.value, next)]
    /\ UNCHANGED <<tempFileOptions, codec, backend, clock, ticks, db, started>>

\* storageEngine.saveSnapshot settles; when it is fulfilled saveMetadata is
\* invoked
StoreSaveSnapshot(i, io, mkdir) ==
    /\ calls[i].kind = "store" /\ calls[i].pc = "saveSnapshot"
    /\ LET c == calls[i]
           r == saveSnapshot(backend, W, c.identifier, c.tempPath, io)
           next == StoreNext("saveSnapshot", r.ok)
       IN  /\ SetWorld(StoreInvoke(c, next, r.world, mkdir))
           /\ calls' = [calls EXCEPT ![i] = Advance(c, "saveSnapshot", r.ok, r.value, next)]
    /\ UNCHANGED <<tempFileOptions, codec, backend, clock, ticks, db, started>>

\* a saveMetadata step after which the call is settled at once, while the
\* unlink of the finally handler is still to come
StoreSaveMetadataSettling(i, io) ==
    /\ calls[i].kind = "store" /\ calls[i].pc = "saveMetadata"
    /\ LET c == calls[i]
           r == saveMetadata(backend, W, StoredData(c), io)
           next == StoreNext("saveMetadata", r.ok)
       IN  /\ SetWorld(r.world)
           /\ calls' = [calls EXCEPT ![i] =
                  [Advance(c, "saveMetadata", r.ok, r.value, next)
                      EXCEPT !.settled = IF r.ok THEN "fulfilled" ELSE "rejected"]]
    /\ UNCHANGED <<tempFileOptions, codec, backend, clock, ticks, db, started>>

\* storageEngine.saveMetadata settles
StoreSaveMetadata(i, io) ==
    /\ calls[i].kind = "store" /\ calls[i].pc = "saveMetadata"
    /\ LET c == calls[i]
           r == saveMetadata(backend, W, StoredData(c), io)
           next == StoreNext("saveMetadata", r.ok)
       IN  /\ SetWorld(StoreInvoke(c, next, r.world, "ok"))
           /\ calls' = [calls EXCEPT ![i] = Advance(c, "saveMetadata", r.ok, r.value, next)]
    /\ UNCHANGED <<tempFileOptions, codec, backend, clock, ticks, db, started>>

\* the finally handler: tryUnlink(tempFilePath) settles, and with it the call
StoreCleanup(i) ==
    /\ calls[i].kind = "store" /\ calls[i].pc = "unlink"
    /\ LET c == calls[i]
           u == tryUnlink(disk, c.tempPath)
       IN  /\ disk' = u.disk
           /\ calls' = [calls EXCEPT ![i] =
                  Settle([Advance(c, "unlink", u.unlinked, c.value, "done")
                             EXCEPT !.failedAt = c.failedAt, !.reason = c.reason,
                                    !.unlinked = IF u.unlinked THEN "ok" ELSE "failed"],
                         Finally(c.failedAt = "none", u.ok))]
    /\ UNCHANGED <<tempFileOptions, codec, backend, clock, ticks, dirs, bucket, db, started>>

(***************************************************************************)
(* restoreSnapshot (lib/index.ts).                                         *)
(***************************************************************************)
\* what invoking loadMetadata leaves pending: the fs backend reads the file
\* synchronously (when.attempt(readFileSync)), the s3 backend sends a request
InvokeLoadMetadata(b, w, identifier) ==
    IF b = "fs"
    THEN LET r == loadMetadata(b, w, identifier, "ok")
         IN  [ok |-> r.ok, value |-> r.value]
    ELSE NoValue

\* the outcome of a pending loadMetadata
SettleLoadMetadata(b, w, c, io) ==
    IF b = "fs" THEN [ok |-> c.pending.ok, value |-> c.pending.value, world |-> w]
    ELSE loadMetadata(b, w, c.identifier, io)

\* restoreSnapshot is called: the temporary path is made and loadMetadata invoked
StartRestore(i, identifier) ==
    /\ CanStart(i)
    /\ started' = started + 1
    /\ calls' = [calls EXCEPT ![i] =
           [NoCall EXCEPT !.kind = "restore", !.seq = started + 1, !.pc = "loadMetadata",
                          !.identifier = identifier,
                          !.tempPath = TempPath(tempFileOptions, started + 1),
                          !.pending = InvokeLoadMetadata(backend, W, identifier),
                          !.trace = <<Event("loadMetadata", "begin")>>,
                          !.emptyAtStart = (DOMAIN Stored(backend, W) = {})]]
    /\ UNCHANGED <<tempFileOptions, codec, backend, clock, ticks, disk, dirs, bucket, db>>

\* storageEngine.loadMetadata settles; tap keeps the record in storageMetadata
RestoreLoadMetadata(i, io) ==
    /\ calls[i].kind = "restore" /\ calls[i].pc = "loadMetadata"
    /\ LET c == calls[i]
           r == SettleLoadMetadata(backend, W, c, io)
           next == RestoreNext("loadMetadata", r.ok)
       IN  /\ SetWorld(r.world)
           /\ calls' = [calls EXCEPT ![i] =
                  [Advance(c, "loadMetadata", r.ok, r.value, next)
                      EXCEPT !.storageMetadata = IF r.ok THEN r.value ELSE @,
                             !.pending = NoValue]]
    /\ UNCHANGED <<tempFileOptions, codec, backend, clock, ticks, db, started>>

\* storageEngine.loadSnapshot(metadata.identifier, dumpFileLocation) settles
RestoreLoadSnapshot(i, io) ==
    /\ calls[i].kind = "restore" /\ calls[i].pc = "loadSnapshot"
    /\ LET c == calls[i]
           r == loadSnapshot(backend, W, c.value.identifier, c.tempPath, io)
           next == RestoreNext("loadSnapshot", r.ok)
       IN  /\ SetWorld(r.world)
           /\ calls' = [calls EXCEPT ![i] =
                  [Advance(c, "loadSnapshot", r.ok, r.value, next)
                      EXCEPT !.localPath = IF r.ok THEN r.value ELSE @]]
    /\ UNCHANGED <<tempFileOptions, codec, backend, clock, ticks, db, started>>

\* a restore step after which the call returns a record made of the
\* caller's identifier instead of the record that was loaded
RestoreDbRestoreReturningArgument(i, outcome) ==
    /\ calls[i].kind = "restore" /\ calls[i].pc = "restore"
    /\ LET c == calls[i]
           r == restore(db, W, c.value, outcome)
           next == RestoreNext("restore", r.ok)
       IN  /\ db' = r.database
           /\ calls' = [calls EXCEPT ![i] =
                  Advance(c, "restore", r.ok,
                          IF r.ok THEN [c.storageMetadata EXCEPT !.identifier = c.identifier]
                          ELSE r.value, next)]
    /\ UNCHANGED <<tempFileOptions, codec, backend, clock, ticks, disk, dirs, bucket, started>>

\* dbEngine.restore(path) settles; then(() => storageMetadata)
RestoreDbRestore(i, outcome) ==
    /\ calls[i].kind = "restore" /\ calls[i].pc = "restore"
    /\ LET c == calls[i]
           r == restore(db, W, c.value, outcome)
           next == RestoreNext("restore", r.ok)
       IN  /\ db' = r.database
           /\ calls' = [calls EXCEPT ![i] =
                  Advance(c, "restore", r.ok,
                          IF r.ok THEN c.storageMetadata ELSE r.value, next)]
    /\ UNCHANGED <<tempFileOptions, codec, backend, clock, ticks, disk, dirs, bucket, started>>

\* a finally handler that unlinks the path loadSnapshot returned instead of
\* the temporary path
RestoreCleanupOfLoadedPath(i) ==
    /\ calls[i].kind = "restore" /\ calls[i].pc = "unlink"
    /\ LET c == calls[i]
           u == tryUnlink(disk, c.localPath)
       IN  /\ disk' = u.disk
           /\ calls' = [calls EXCEPT ![i] =
                  Settle([Advance(c, "unlink", u.unlinked, c.value, "done")
                             EXCEPT !.failedAt = c.failedAt, !.reason = c.reason,
                                    !.unlinked = IF u.unlinked THEN "ok" ELSE "failed"],
                         Finally(c.failedAt = "none", u.ok))]
    /\ UNCHANGED <<tempFileOptions, codec, backend, clock, ticks, dirs, bucket, db, started>>

\* the finally handler: tryUnlink(dumpFileLocation) settles, and with it the call
RestoreCleanup(i) ==
    /\ calls[i].kind = "restore" /\ calls[i].pc = "unlink"
    /\ LET c == calls[i]
           u == tryUnlink(disk, c.tempPath)
       IN  /\ disk' = u.disk
           /\ calls' = [calls EXCEPT ![i] =
                  Settle([Advance(c, "unlink", u.unlinked, c.value, "done")
                             EXCEPT !.failedAt = c.failedAt, !.reason = c.reason,
                                    !.unlinked = IF u.unlinked THEN "ok" ELSE "failed"],
                         Finally(c.failedAt = "none", u.ok))]
    /\ UNCHANGED <<tempFileOptions, codec, backend, clock, ticks, dirs, bucket, db, started>>

(***************************************************************************)
(* deleteSnapshot, listSnapshots, getMetadata (lib/index.ts).              *)
(***************************************************************************)
\* the record a call without a finally handler leaves when its chain ends
Finish(c) ==
    IF c.pc # "done" THEN c
    ELSE [c EXCEPT !.settled = IF c.failedAt = "none" THEN "fulfilled" ELSE "rejected"]

\* deleteSnapshot is called: deleteMetadata is invoked
StartDelete(i, identifier) ==
    /\ CanStart(i)
    /\ started' = started + 1
    /\ calls' = [calls EXCEPT ![i] =
           [NoCall EXCEPT !.kind = "delete", !.seq = started + 1, !.pc = "deleteMetadata",
                          !.identifier = identifier,
                          !.trace = <<Event("deleteMetadata", "begin")>>,
                          !.emptyAtStart = (DOMAIN Stored(backend, W) = {})]]
    /\ UNCHANGED <<tempFileOptions, codec, backend, clock, ticks, disk, dirs, bucket, db>>

\* storageEngine.deleteMetadata settles
DeleteMetadata(i, io) ==
    /\ calls[i].kind = "delete" /\ calls[i].pc = "deleteMetadata"
    /\ LET c == calls[i]
           r == deleteMetadata(backend, W, c.identifier, io)
           next == DeleteNext("deleteMetadata", r.ok)
       IN  /\ SetWorld(r.world)
           /\ calls' = [calls EXCEPT ![i] =
                  Finish(Advance(c, "deleteMetadata", r.ok, r.value, next))]
    /\ UNCHANGED <<tempFileOptions, codec, backend, clock, ticks, db, started>>

\* storageEngine.deleteSnapshot settles
DeleteSnapshot(i, io) ==
    /\ calls[i].kind = "delete" /\ calls[i].pc = "deleteSnapshot"
    /\ LET c == calls[i]
           r == deleteSnapshot(backend, W, c.identifier, io)
           next == DeleteNext("deleteSnapshot", r.ok)
       IN  /\ SetWorld(r.world)
           /\ calls' = [calls EXCEPT ![i] =
                  Finish(Advance(c, "deleteSnapshot", r.ok, r.value, next))]
    /\ UNCHANGED <<tempFileOptions, codec, backend, clock, ticks, db, started>>

\* listSnapshots is called: storageEngine.list is invoked
StartList(i) ==
    /\ CanStart(i)
    /\ started' = started + 1
    /\ calls' = [calls EXCEPT ![i] =
           [NoCall EXCEPT !.kind = "list", !.seq = started + 1, !.pc = "list",
                          !.trace = <<Event("list", "begin")>>,
                          !.emptyAtStart = (DOMAIN Stored(backend, W) = {})]]
    /\ UNCHANGED <<tempFileOptions, codec, backend, clock, ticks, disk, dirs, bucket, db>>

\* storageEngine.list settles
ListSettle(i, order, io) ==
    /\ calls[i].kind = "list" /\ calls[i].pc = "list"
    /\ LET c == calls[i]
           r == list(backend, W, order, io)
       IN  calls' = [calls EXCEPT ![i] =
               Finish(Advance(c, "list", r.ok, r.value, "done"))]
    /\ UNCHANGED <<tempFileOptions, codec, backend, clock, ticks, disk, dirs, bucket, db, started>>

\* getMetadata is called: storageEngine.loadMetadata is invoked
StartGetMetadata(i, identifier) ==
    /\ CanStart(i)
    /\ started' = started + 1
    /\ calls' = [calls EXCEPT ![i] =
           [NoCall EXCEPT !.kind = "getMetadata", !.seq = started + 1,
                          !.pc = "loadMetadata",
                          !.identifier = identifier,
                          !.pending = InvokeLoadMetadata(backend, W, identifier),
                          !.trace = <<Event("loadMetadata", "begin")>>,
                          !.emptyAtStart = (DOMAIN Stored(backend, W) = {})]]
    /\ UNCHANGED <<tempFileOptions, codec, backend, clock, ticks, disk, dirs, bucket, db>>

\* storageEngine.loadMetadata settles
GetMetadataSettle(i, io) ==
    /\ calls[i].kind = "getMetadata" /\ calls[i].pc = "loadMetadata"
    /\ LET c == calls[i]
           r == SettleLoadMetadata(backend, W, c, io)
       IN  calls' = [calls EXCEPT ![i] =
               [Finish(Advance(c, "loadMetadata", r.ok, r.value, "done"))
                   EXCEPT !.pending = NoValue]]
    /\ UNCHANGED <<tempFileOptions, codec, backend, clock, ticks, disk, dirs, bucket, db, started>>

(***************************************************************************)
(* Specifications.  Under Spec the caller may start a call while others    *)
(* are in flight; under SeqSpec the caller waits for a call to settle      *)
(* before it starts the next one.                                          *)
(***************************************************************************)
Start(i) ==
    \/ \E args \in StoreArgs : StartStore(i, args.tables, args.userMetadata)
    \/ \E identifier \in IdentifierArgs : StartRestore(i, identifier)
    \/ \E identifier \in IdentifierArgs : StartDelete(i, identifier)
    \/ StartList(i)
    \/ \E identifier \in IdentifierArgs : StartGetMetadata(i, identifier)

Step(i) ==
    \/ \E outcome \in DumpOutcomes, mkdir \in WriteOutcomes : StoreDump(i, outcome, mkdir)
    \/ \E io \in WriteOutcomes, mkdir \in WriteOutcomes : StoreSaveSnapshot(i, io, mkdir)
    \/ \E io \in WriteOutcomes : StoreSaveMetadata(i, io)
    \/ StoreCleanup(i)
    \/ \E io \in RequestOutcomes(backend) : RestoreLoadMetadata(i, io)
    \/ \E io \in DownloadOutcomes(backend) : RestoreLoadSnapshot(i, io)
    \/ \E outcome \in RestoreOutcomes : RestoreDbRestore(i, outcome)
    \/ RestoreCleanup(i)
    \/ \E io \in RequestOutcomes(backend) : DeleteMetadata(i, io)
    \/ \E io \in RequestOutcomes(backend) : DeleteSnapshot(i, io)
    \/ \E io \in RequestOutcomes(backend) :
           \E order \in ListingOrders(backend, W, MetadataFolder) : ListSettle(i, order, io)
    \/ \E io \in RequestOutcomes(backend) : GetMetadataSettle(i, io)

Environment == Tick \/ DropTables

Next ==
    \/ \E i \in Slots : Start(i)
    \/ \E i \in Slots : Step(i)
    \/ Environment

Spec == Init /\ [][Next]_vars

NoneInFlight == \A j \in Slots : ~InFlight(calls[j])

NextSeq ==
    \/ \E i \in Slots : NoneInFlight /\ Start(i)
    \/ \E i \in Slots : Step(i)
    \/ Environment

SeqSpec == Init /\ [][NextSeq]_vars

\* Under Spec and SeqSpec the options of temp.path stay as the module sets
\* them; under TempDirSpec the caller may also call setTempDir at any
\* moment, between calls and while calls are in flight.
Configure == \E dirPath \in TempDirs : setTempDir(dirPath)

NextTempDir ==
    \/ \E i \in Slots : Start(i)
    \/ \E i \in Slots : Step(i)
    \/ Configure
    \/ Environment

TempDirSpec == Init /\ [][NextTempDir]_vars

\* Under DistinctSpec the caller starts a call while others are in flight
\* only when the call has another identifier than each of them (calls one
\* after another are free to name the same identifier), and deleteSnapshot
\* may also be given the identifier that the caller has made.
NextDistinct ==
    \/ \E i \in Slots :
           /\ Start(i) \/ StartDelete(i, JoinedIdentifier)
           /\ \A j \in Slots \ {i} :
                  InFlight(calls[j]) /\ calls'[i].kind # "list" =>
                      calls[j].identifier # calls'[i].identifier
    \/ \E i \in Slots : Step(i)
    \/ Environment

DistinctSpec == Init /\ [][NextDistinct]_vars

(***************************************************************************)
(* Vocabulary of the properties.                                           *)
(***************************************************************************)
Settled(c) == c.pc = "done"

HasEvent(c, step, what) == \E k \in 1..Len(c.trace) : c.trace[k] = Event(step, what)

Invoked(c, step) == HasEvent(c, step, "begin")

UsesTempPath(c) == c.kind \in {"store", "restore"}

\* the call that settled last, with no call started since
Latest(c) == Settled(c) /\ c.seq = started /\ NoneInFlight

Encoding(identifier) == filename(identifier, SnapshotExtension)

\* what getMetadata(identifier) gives in the current state
MetadataNow(identifier) == loadMetadata(backend, W, identifier, "ok")

C2_OutcomeIndependentOfCleanup ==
    \A i \in Slots :
        LET c == calls[i]
        IN  UsesTempPath(c) /\ Settled(c) =>
                /\ c.unlinked \in {"ok", "failed"}
                /\ c.failedAt # "none" =>
                       /\ c.settled = "rejected"
                       /\ c.reason \notin {"none", "unlink"}
                /\ c.failedAt = "none" =>
                       /\ c.settled = "fulfilled"
                       /\ c.kind = "store" => c.value = StoredData(c)
                       /\ c.kind = "restore" => c.value = c.storageMetadata

\* a call is fulfilled although the unlink of its temporary path failed
C2_Witness ==
    \E i \in Slots :
        /\ UsesTempPath(calls[i]) /\ Settled(calls[i])
        /\ calls[i].settled = "fulfilled"
        /\ calls[i].unlinked = "failed"

(***************************************************************************)
(* C3: in storeSnapshot a failing step aborts the later steps and the call *)
(* is rejected.  If dump fails, saveSnapshot and saveMetadata are never    *)
(* invoked and no step of the call changes the stored files; if            *)
(* saveSnapshot fails, saveMetadata is never invoked; in both cases the    *)
(* unlink of the temporary path is still invoked.                          *)
(***************************************************************************)
C3_AbortedState(c) ==
    /\ c.failedAt = "dump" => ~Invoked(c, "saveSnapshot") /\ ~Invoked(c, "saveMetadata")
    /\ c.failedAt = "saveSnapshot" => ~Invoked(c, "saveMetadata")
    /\ c.failedAt \in {"dump", "saveSnapshot"} =>
           /\ Invoked(c, "unlink")
           /\ Settled(c) => c.settled = "rejected"

C3_FailingStepAborts ==
    /\ [](\A i \in Slots : calls[i].kind = "store" => C3_AbortedState(calls[i]))
    /\ [][\A i \in Slots :
              /\ calls[i].kind = "store"
              /\ calls'[i].kind = "store"
              /\ calls'[i].seq = calls[i].seq
              /\ calls'[i].trace # calls[i].trace
              /\ calls'[i].failedAt = "dump"
              => Stored(backend, W)' = Stored(backend, W)]_vars

\* a storeSnapshot call was rejected because saveSnapshot failed
C3_Witness ==
    \E i \in Slots :
        /\ calls[i].kind = "store" /\ Settled(calls[i])
        /\ calls[i].failedAt = "saveSnapshot"
        /\ calls[i].settled = "rejected"

(***************************************************************************)
(* C4: within one storeSnapshot call the steps are strictly ordered and    *)
(* never overlap: saveSnapshot is invoked only when dump has just settled  *)
(* successfully, saveMetadata only when saveSnapshot has just settled      *)
(* successfully, the unlink of the temporary path only when the last       *)
(* executed pipeline step has settled, and every invoked step settles      *)
(* before another one is invoked.                                          *)
(***************************************************************************)
C4_Ordered(trace) ==
    \A k \in 1..Len(trace) :
        trace[k][2] = "begin" =>
            /\ trace[k][1] = "dump" => k = 1
            /\ trace[k][1] = "saveSnapshot" => k > 1 /\ trace[k - 1] = Event("dump", "ok")
            /\ trace[k][1] = "saveMetadata" =>
                   k > 1 /\ trace[k - 1] = Event("saveSnapshot", "ok")
            /\ trace[k][1] = "unlink" =>
                   /\ k > 1
                   /\ trace[k - 1][2] \in {"ok", "fail"}
                   /\ trace[k - 1][1] \in {"dump", "saveSnapshot", "saveMetadata"}
                   /\ \A m \in (k + 1)..Len(trace) : trace[m][1] = "unlink"
            /\ k < Len(trace) =>
                   trace[k + 1][1] = trace[k][1] /\ trace[k + 1][2] \in {"ok", "fail"}

C4_StepsOrdered ==
    \A i \in Slots : calls[i].kind = "store" => C4_Ordered(calls[i].trace)

\* a storeSnapshot call ran all its steps and settled
C4_Witness ==
    \E i \in Slots :
        /\ calls[i].kind = "store" /\ Settled(calls[i])
        /\ calls[i].trace = <<Event("dump", "begin"), Event("dump", "ok"),
                              Event("saveSnapshot", "begin"), Event("saveSnapshot", "ok"),
                              Event("saveMetadata", "begin"), Event("saveMetadata", "ok"),
                              Event("unlink", "begin"), Event("unlink", "ok")>>

(***************************************************************************)
(* C5: if loadMetadata fails in restoreSnapshot, the call is rejected and  *)
(* neither storageEngine.loadSnapshot nor dbEngine.restore is invoked for  *)
(* that call.                                                              *)
(***************************************************************************)
C5_LoadMetadataFailureAborts ==
    \A i \in Slots :
        LET c == calls[i]
        IN  c.kind = "restore" /\ c.failedAt = "loadMetadata" =>
                /\ ~Invoked(c, "loadSnapshot")
                /\ ~Invoked(c, "restore")
                /\ Settled(c) => c.settled = "rejected"

\* a restoreSnapshot call of an identifier without metadata was rejected
C5_Witness ==
    \E i \in Slots :
        /\ calls[i].kind = "restore" /\ Settled(calls[i])
        /\ calls[i].failedAt = "loadMetadata"
        /\ calls[i].settled = "rejected"

(***************************************************************************)
(* C6: any two storeSnapshot calls for the same table set, also calls that *)
(* run concurrently or start within the same clock second, get identifiers *)
(* with distinct canonical encodings.                                      *)
(***************************************************************************)
C6_DistinctIdentifiers ==
    \A i, j \in Slots :
        /\ i # j
        /\ calls[i].kind = "store"
        /\ calls[j].kind = "store"
        /\ calls[i].tables = calls[j].tables
        => Encoding(calls[i].identifier) # Encoding(calls[j].identifier)

(***************************************************************************)
(* C7: after a storeSnapshot on an empty filesystem backend has succeeded, *)
(* listSnapshots returns exactly one identifier, whose encoding equals the *)
(* encoding of the identifier in the record that storeSnapshot returned.   *)
(***************************************************************************)
C7_Case(c) ==
    /\ backend = "fs"
    /\ c.kind = "store"
    /\ Latest(c)
    /\ c.settled = "fulfilled"
    /\ c.emptyAtStart

C7_StoreThenList ==
    \A i \in Slots :
        C7_Case(calls[i]) =>
            \A order \in ListingOrders(backend, W, MetadataFolder) :
                LET r == list(backend, W, order, "ok")
                IN  /\ r.ok
                    /\ Len(r.value) = 1
                    /\ Encoding(r.value[1]) = Encoding(calls[i].value.identifier)

\* a storeSnapshot of two tables on the empty filesystem backend succeeded
C7_Witness ==
    \E i \in Slots : C7_Case(calls[i]) /\ calls[i].tables = <<TableA, TableB>>

(***************************************************************************)
(* C8, as claimed: after a successful storeSnapshot(tables, userMetadata), *)
(* and also after a following restoreSnapshot of the returned identifier,  *)
(* getMetadata for that identifier returns a record whose tablenames equal *)
(* tables and whose metadata equals userMetadata.                          *)
(***************************************************************************)
\* store is a storeSnapshot call that succeeded, and it is the last call
C8_AfterStore(store) ==
    /\ store.kind = "store"
    /\ Latest(store)
    /\ store.settled = "fulfilled"

\* store succeeded, and the next call, the last one, was a successful
\* restoreSnapshot of the identifier that store returned
C8_AfterRestore(store, rest) ==
    /\ store.kind = "store"
    /\ Settled(store)
    /\ store.settled = "fulfilled"
    /\ rest.kind = "restore"
    /\ Latest(rest)
    /\ rest.settled = "fulfilled"
    /\ rest.seq = store.seq + 1
    /\ rest.identifier = store.value.identifier

C8_Case(store) == C8_AfterStore(store) \/ \E j \in Slots : C8_AfterRestore(store, calls[j])

C8_Original ==
    \A i \in Slots :
        C8_Case(calls[i]) =>
            LET r == MetadataNow(calls[i].value.identifier)
            IN  /\ r.ok
                /\ r.value.identifier.tablenames = calls[i].tables
                /\ r.value.metadata = calls[i].userMetadata

(***************************************************************************)
(* C8, amended: after a successful storeSnapshot(tables, userMetadata),    *)
(* and also after a following restoreSnapshot of the returned identifier,  *)
(* getMetadata for that identifier returns a record whose identifier has   *)
(* the encoding of the returned identifier and whose metadata is           *)
(* userMetadata as JSON keeps it (without the properties whose value is    *)
(* undefined); its tablenames equal tables when tables is not empty and no *)
(* table name contains "--" or begins or ends with "-".                    *)
(***************************************************************************)
C8_PlainName(name) ==
    /\ IndexOf(name, <<"-", "-">>) = -1
    /\ name # << >> => name[1] # "-" /\ name[Len(name)] # "-"

C8_PlainNames(tables) ==
    /\ tables # << >>
    /\ \A n \in 1..Len(tables) : C8_PlainName(tables[n])

C8_JsonRepresentable(object) == \A k \in DOMAIN object : ~IsUndefined(object[k])

C8_StoreThenGetMetadata ==
    \A i \in Slots :
        C8_Case(calls[i]) =>
            LET r == MetadataNow(calls[i].value.identifier)
            IN  /\ r.ok
                /\ Encoding(r.value.identifier) = Encoding(calls[i].value.identifier)
                /\ C8_PlainNames(calls[i].tables) =>
                       r.value.identifier.tablenames = calls[i].tables
                /\ r.value.metadata = JsonRoundTrip(calls[i].userMetadata)
                /\ C8_JsonRepresentable(calls[i].userMetadata) =>
                       r.value.metadata = calls[i].userMetadata

\* a storeSnapshot and the restoreSnapshot of the identifier it returned succeeded
C8_Witness ==
    \E i, j \in Slots :
        /\ C8_AfterRestore(calls[i], calls[j])
        /\ C8_PlainNames(calls[i].tables)
        /\ C8_JsonRepresentable(calls[i].userMetadata)

(***************************************************************************)
(* C9: after deleteSnapshot(id) has succeeded, getMetadata(id) is rejected *)
(* and listSnapshots returns no identifier with the encoding of id; when   *)
(* id was the only stored snapshot, listSnapshots returns the empty        *)
(* sequence.                                                               *)
(***************************************************************************)
C9_AfterDelete(del) ==
    /\ del.kind = "delete"
    /\ Latest(del)
    /\ del.settled = "fulfilled"

\* store put the only snapshot on the backend and del, the next call, deleted it
C9_OnlySnapshotDeleted(store, del) ==
    /\ C9_AfterDelete(del)
    /\ store.kind = "store"
    /\ Settled(store)
    /\ store.settled = "fulfilled"
    /\ store.emptyAtStart
    /\ del.seq = store.seq + 1
    /\ del.identifier = store.value.identifier

C9_DeleteRemoves ==
    \A i \in Slots :
        C9_AfterDelete(calls[i]) =>
            /\ ~MetadataNow(calls[i].identifier).ok
            /\ \A order \in ListingOrders(backend, W, MetadataFolder) :
                   LET r == list(backend, W, order, "ok")
                   IN  /\ r.ok
                       /\ \A n \in 1..Len(r.value) :
                              Encoding(r.value[n]) # Encoding(calls[i].identifier)
                       /\ (\E j \in Slots : C9_OnlySnapshotDeleted(calls[j], calls[i]))
                              => r.value = << >>

\* the only stored snapshot was deleted
C9_Witness ==
    \E i, j \in Slots : C9_OnlySnapshotDeleted(calls[j], calls[i])

(***************************************************************************)
(* C10: on every backend loadSnapshot(id, dest) fails when no snapshot     *)
(* entry exists for id; in particular a snapshot load for id fails after a *)
(* successful deleteSnapshot(id).                                          *)
(***************************************************************************)
C10_LoadFails(identifier) ==
    \A io \in DownloadOutcomes(backend) :
        ~loadSnapshot(backend, W, identifier, TempPath(tempFileOptions, started + 1), io).ok

C10_LoadSnapshotNotFound ==
    /\ \A identifier \in IdentifierArgs :
           ~Exists(Stored(backend, W), path(SnapshotFolder, identifier))
               => C10_LoadFails(identifier)
    /\ \A i \in Slots :
           C9_AfterDelete(calls[i]) => C10_LoadFails(calls[i].identifier)

(***************************************************************************)
(* C11: deleteSnapshot(id) deletes the metadata entry first and the        *)
(* snapshot data second.  When the metadata delete succeeds and the        *)
(* snapshot delete fails, the call is rejected, the failing step leaves    *)
(* the storage as it was (the snapshot object is not removed, the metadata *)
(* entry is not written back) and the metadata entry is still absent when  *)
(* the call has settled.                                                   *)
(***************************************************************************)
\* the steps of a deleteSnapshot call come in the order of the chain
C11_Ordered(trace) ==
    LET full == <<Event("deleteMetadata", "begin"), Event("deleteMetadata", "ok"),
                  Event("deleteSnapshot", "begin")>>
    IN  \/ Len(trace) <= 3 /\ trace = SubSeq(full, 1, Len(trace))
        \/ trace = <<Event("deleteMetadata", "begin"), Event("deleteMetadata", "fail")>>
        \/ trace = full \o <<Event("deleteSnapshot", "ok")>>
        \/ trace = full \o <<Event("deleteSnapshot", "fail")>>

C11_Orphaned(c) ==
    /\ c.kind = "delete"
    /\ c.failedAt = "deleteSnapshot"

C11_DeleteOrder ==
    /\ [](\A i \in Slots :
            /\ calls[i].kind = "delete" => C11_Ordered(calls[i].trace)
            /\ C11_Orphaned(calls[i]) =>
                   /\ HasEvent(calls[i], "deleteMetadata", "ok")
                   /\ calls[i].settled = "rejected"
                   /\ Latest(calls[i]) =>
                          ~Exists(Stored(backend, W), path(MetadataFolder, calls[i].identifier)))
    /\ [][\A i \in Slots :
              /\ ~C11_Orphaned(calls[i])
              /\ C11_Orphaned(calls'[i])
              => Stored(backend, W)' = Stored(backend, W)]_vars

\* a deleteSnapshot call removed the metadata entry of a stored snapshot and
\* failed to remove the snapshot object, which is still there
C11_Witness ==
    \E i \in Slots :
        /\ C11_Orphaned(calls[i])
        /\ Latest(calls[i])
        /\ Exists(Stored(backend, W), path(SnapshotFolder, calls[i].identifier))

(***************************************************************************)
(* C12: deleteMetadata(id) and deleteSnapshot(id) of the storage engine    *)
(* fail when no entry exists for id and leave the storage unchanged; so a  *)
(* second deleteSnapshot(id) issued after a successful one is rejected.    *)
(***************************************************************************)
\* call i settles its step `step`, which deletes the entry at p, while no
\* entry exists at p
C12_DeletesMissing(i, step, p) ==
    /\ calls[i].kind = "delete"
    /\ calls[i].pc = step
    /\ calls'[i].trace # calls[i].trace
    /\ ~Exists(Stored(backend, W), p)

\* second is a deleteSnapshot of the identifier that first, the call before
\* it, deleted successfully
C12_SecondDelete(first, second) ==
    /\ first.kind = "delete"
    /\ Settled(first)
    /\ first.settled = "fulfilled"
    /\ second.kind = "delete"
    /\ Latest(second)
    /\ second.seq = first.seq + 1
    /\ second.identifier = first.identifier

C12_DeleteMissingFails ==
    /\ [][\A i \in Slots :
              /\ C12_DeletesMissing(i, "deleteMetadata", path(MetadataFolder, calls[i].identifier))
                     => /\ calls'[i].failedAt = "deleteMetadata"
                        /\ Stored(backend, W)' = Stored(backend, W)
              /\ C12_DeletesMissing(i, "deleteSnapshot", path(SnapshotFolder, calls[i].identifier))
                     => /\ calls'[i].failedAt = "deleteSnapshot"
                        /\ Stored(backend, W)' = Stored(backend, W)]_vars
    /\ [](\A i, j \in Slots :
              C12_SecondDelete(calls[i], calls[j]) => calls[j].settled = "rejected")

(***************************************************************************)
(* C13: when storeSnapshot(tables, userMetadata) succeeds it returns the   *)
(* metadata record that saveMetadata persisted: identifier.tablenames is   *)
(* the list of tables in the same order, stats is the empty mapping and    *)
(* metadata is userMetadata exactly; the stored metadata document is the   *)
(* JSON form of the returned record.                                       *)
(***************************************************************************)
C13_Stored(c) ==
    /\ c.kind = "store"
    /\ Settled(c)
    /\ c.settled = "fulfilled"

C13_StoreReturnsRecord ==
    \A i \in Slots :
        C13_Stored(calls[i]) =>
            LET c == calls[i]
                p == path(MetadataFolder, c.identifier)
            IN  /\ c.value.identifier.tablenames = c.tables
                /\ c.value.stats = << >>
                /\ c.value.metadata = c.userMetadata
                /\ c.value = StoredData(c)
                /\ Latest(c) =>
                       /\ Exists(Stored(backend, W), p)
                       /\ Stored(backend, W)[p] = toJSON(c.value)

\* a storeSnapshot succeeded whose userMetadata has a property that JSON
\* does not keep and whose table name holds the separator
C13_Witness ==
    /\ \E i \in Slots :
           C13_Stored(calls[i]) /\ Latest(calls[i]) /\ calls[i].userMetadata = MetaOffset
    /\ \E i \in Slots : C13_Stored(calls[i]) /\ calls[i].tables = <<TableAB>>

(***************************************************************************)
(* C14: when restoreSnapshot(id) succeeds it returns the metadata record   *)
(* that its own loadMetadata step loaded, and loadMetadata is invoked once *)
(* per call; the snapshot is loaded under the identifier of that record;   *)
(* dbEngine.restore reads the local path that loadSnapshot returned.       *)
(***************************************************************************)
C14_Count(trace, event) == Cardinality({k \in 1..Len(trace) : trace[k] = event})

\* call i settles its step `step` successfully in this step of the system
C14_Succeeds(i, step) ==
    /\ calls[i].kind = "restore"
    /\ calls[i].pc = step
    /\ calls'[i].trace = calls[i].trace \o <<Event(step, "ok")>>
                             \o <<Event(RestoreNext(step, TRUE), "begin")>>

\* the local path that a successful load of the snapshot under `identifier`
\* gives, and the file it leaves there
C14_Loaded(c, identifier) ==
    IF backend = "fs"
    THEN /\ c.localPath = path(SnapshotFolder, identifier)
         /\ disk' = disk
    ELSE /\ c.localPath = c.tempPath
         /\ Exists(bucket, path(SnapshotFolder, identifier))
         /\ disk' = Put(disk, c.tempPath, bucket[path(SnapshotFolder, identifier)])

C14_RestoreReturnsLoaded ==
    /\ [](\A i \in Slots :
              calls[i].kind = "restore" =>
                  /\ C14_Count(calls[i].trace, Event("loadMetadata", "begin")) = 1
                  /\ Settled(calls[i]) /\ calls[i].settled = "fulfilled" =>
                         /\ HasEvent(calls[i], "loadMetadata", "ok")
                         /\ calls[i].value = calls[i].storageMetadata)
    /\ [][\A i \in Slots :
              /\ C14_Succeeds(i, "loadMetadata") =>
                     /\ calls'[i].storageMetadata = MetadataNow(calls[i].identifier).value
                     /\ MetadataNow(calls[i].identifier).ok
              /\ C14_Succeeds(i, "loadSnapshot") =>
                     C14_Loaded(calls'[i], calls[i].storageMetadata.identifier)
              /\ C14_Succeeds(i, "restore") =>
                     /\ Exists(disk, calls[i].localPath)
                     /\ db' = db \cup RestoredTables(W, calls[i].localPath)]_vars

\* a restoreSnapshot succeeded and returned a record whose identifier is
\* not the identifier the caller gave
C14_Witness ==
    \E i \in Slots :
        /\ calls[i].kind = "restore"
        /\ Settled(calls[i])
        /\ calls[i].settled = "fulfilled"
        /\ calls[i].value.identifier # calls[i].identifier

(***************************************************************************)
(* C15: if dbEngine.restore fails during restoreSnapshot (for example the  *)
(* tables already exist), the call is rejected with the error of the       *)
(* database engine and the stored metadata and snapshot entries of the     *)
(* identifier are left intact: no step of the call changes the storage,    *)
(* both entries are there when the call has settled, and a deleteSnapshot  *)
(* of the same identifier then succeeds.                                   *)
(***************************************************************************)
C15_RestoreFailed(c) ==
    /\ c.kind = "restore"
    /\ Latest(c)
    /\ c.failedAt = "restore"

\* deleteSnapshot(identifier) succeeds when it is started in this state and
\* no request fails
C15_DeleteSucceeds(identifier) ==
    LET m == deleteMetadata(backend, W, identifier, "ok")
    IN  /\ m.ok
        /\ deleteSnapshot(backend, m.world, identifier, "ok").ok

C15_RestoreFailureLeavesStorage ==
    /\ [](\A i \in Slots :
              C15_RestoreFailed(calls[i]) =>
                  /\ calls[i].settled = "rejected"
                  /\ calls[i].reason = "Could not restore dump"
                  /\ Exists(Stored(backend, W), path(MetadataFolder, calls[i].identifier))
                  /\ Exists(Stored(backend, W), path(SnapshotFolder, calls[i].identifier))
                  /\ C15_DeleteSucceeds(calls[i].identifier))
    /\ [][\A i \in Slots :
              /\ calls[i].kind = "restore"
              /\ calls'[i].seq = calls[i].seq
              /\ calls'[i].trace # calls[i].trace
              => Stored(backend, W)' = Stored(backend, W)]_vars

\* a restoreSnapshot was rejected because the tables of the dump exist
C15_Witness ==
    \E i \in Slots :
        /\ C15_RestoreFailed(calls[i])
        /\ Exists(disk, calls[i].localPath) \/ backend = "s3"
        /\ calls[i].storageMetadata.identifier.tablenames # << >>
        /\ \A n \in 1..Len(calls[i].storageMetadata.identifier.tablenames) :
               calls[i].storageMetadata.identifier.tablenames[n] \in db

(***************************************************************************)
(* The conversions of lib/API.ts, applied to inputs drawn from bounded     *)
(* sets: an identifier to a filename and back (directly by getIdentifier,  *)
(* or as list() does it, on the name that ls has split from its            *)
(* extension), and a metadata record to its JSON document and back.        *)
(***************************************************************************)
\* the longest table name, in characters, and the longest list of tables
MaxNameLen == 2
MaxNames == 2

CodecChars == {"a", "-"}

CodecTexts == UNION {[1..k -> CodecChars] : k \in 0..MaxNameLen}

\* table names: the short texts, a name with a dot, a name with a hyphen and
\* a name with both
CodecNames ==
    CodecTexts \cup {<<"a", ".", "b">>, <<"a", "-", "a">>, <<"a", "-", "b", ".", "c">>}

\* the tables of the tests of the core module
ScenarioTables ==
    <<<<"t", "a", "b", "l", "e", "_", "a">>,
      <<"t", "a", "b", "l", "e", "_", "b">>>>

CodecTableLists == UNION {[1..k -> CodecNames] : k \in 0..MaxNames} \cup {ScenarioTables}

\* 2016-02-01T00:00:00Z, 2016-02-01T23:59:59Z and 2016-02-02T01:01:01.500Z
CodecDates ==
    {Moment(0, 0), Moment(StartSecond, 0),
     Moment(SecondsPerDay + SecondsPerHour + SecondsPerMinute + 1, 500)}

\* the extension that the README gives to the metadata entries
MetadataExtension == <<".", "m", "e", "t", "a", "d", "a", "t", "a">>

CodecExtensions == {NoExtension, SnapshotExtension, MetadataExtension}

CodecIdentifierInputs ==
    {[op |-> "identifier", stage |-> "input", via |-> "none",
      identifier |-> SnapshotIdentifier(tablenames, date), extension |-> extension,
      text |-> << >>, descriptor |-> NoValue, parsed |-> NoValue] :
        tablenames \in CodecTableLists, date \in CodecDates, extension \in CodecExtensions}

\* objects given as stats or metadata: empty, flat, nested, and two that
\* hold the value undefined
CodecObjects ==
    {<< >>,
     [foo |-> NumberValue(5)],
     [offset |-> ArrayValue(<<NumberValue(1), NumberValue(2), NumberValue(3)>>)],
     [a |-> ObjectValue([b |-> ArrayValue(<<ObjectValue([c |-> Null]),
                                             StringValue("x"), ArrayValue(<< >>)>>)])],
     MetaOffset,
     [list |-> ArrayValue(<<Undefined>>)]}

CodecMetadataInputs ==
    {[op |-> "metadata", stage |-> "input",
      record |-> [identifier |-> SnapshotIdentifier(tablenames, date),
                  stats |-> stats, metadata |-> metadata],
      json |-> NoValue, decoded |-> NoValue] :
        tablenames \in {<<TableA>>, <<TableA, TableB>>, <<TableAB>>},
        date \in CodecDates, stats \in CodecObjects, metadata \in CodecObjects}

\* the entries that readdir gives for a directory of the tests of the
\* backends: the file plain.ext, the subdirectory nested (which holds
\* foo.bar) and the file foo.bar, any of them, in any order
PlainExt == <<"p", "l", "a", "i", "n", ".", "e", "x", "t">>
Nested == <<"n", "e", "s", "t", "e", "d">>
FooBar == <<"f", "o", "o", ".", "b", "a", "r">>

CodecListingInputs ==
    {[op |-> "ls", stage |-> "input", entries |-> order, listing |-> << >>,
      engine |-> "none", identifiers |-> << >>] :
        order \in UNION {Orderings(names) : names \in SUBSET {PlainExt, Nested, FooBar}}}

CodecInit ==
    /\ backend = "fs"
    /\ clock = [sec |-> StartSecond, ms |-> 0]
    /\ ticks = 0
    /\ disk = NoFiles
    /\ dirs = {}
    /\ bucket = NoFiles
    /\ db = TableNames
    /\ calls = [i \in Slots |-> NoCall]
    /\ started = 0
    /\ codec \in CodecIdentifierInputs \cup CodecMetadataInputs \cup CodecListingInputs
    /\ tempFileOptions = [prefix |-> "taara-restore-", dir |-> "none"]

\* identifier.filename(extension)
CodecFilename ==
    /\ codec.op = "identifier" /\ codec.stage = "input"
    /\ codec' = [codec EXCEPT !.stage = "encoded",
                              !.text = filename(codec.identifier, codec.extension)]
    /\ UNCHANGED <<tempFileOptions, backend, clock, ticks, disk, dirs, bucket, db, calls,
                 started>>

\* getIdentifier(text)
CodecGetIdentifier ==
    /\ codec.op = "identifier" /\ codec.stage = "encoded"
    /\ codec' = [codec EXCEPT !.stage = "parsed", !.via = "getIdentifier",
                              !.parsed = getIdentifier(codec.text)]
    /\ UNCHANGED <<tempFileOptions, backend, clock, ticks, disk, dirs, bucket, db, calls,
                 started>>

\* ls gives the name as a FileDescriptor
CodecLs ==
    /\ codec.op = "identifier" /\ codec.stage = "encoded"
    /\ codec' = [codec EXCEPT !.stage = "listed", !.descriptor = Descriptor(codec.text)]
    /\ UNCHANGED <<tempFileOptions, backend, clock, ticks, disk, dirs, bucket, db, calls,
                 started>>

\* list() parses the filename of a descriptor that ls kept
CodecList ==
    /\ codec.op = "identifier" /\ codec.stage = "listed"
    /\ KeepDescriptor(codec.descriptor)
    /\ codec' = [codec EXCEPT !.stage = "parsed", !.via = "list",
                              !.parsed = getIdentifier(codec.descriptor.filename)]
    /\ UNCHANGED <<tempFileOptions, backend, clock, ticks, disk, dirs, bucket, db, calls,
                 started>>

\* StorageMetadata.toJSON(record)
CodecToJSON ==
    /\ codec.op = "metadata" /\ codec.stage = "input"
    /\ codec' = [codec EXCEPT !.stage = "encoded", !.json = toJSON(codec.record)]
    /\ UNCHANGED <<tempFileOptions, backend, clock, ticks, disk, dirs, bucket, db, calls,
                 started>>

\* StorageMetadata.fromJson(json)
CodecFromJson ==
    /\ codec.op = "metadata" /\ codec.stage = "encoded"
    /\ codec' = [codec EXCEPT !.stage = "decoded", !.decoded = fromJson(codec.json)]
    /\ UNCHANGED <<tempFileOptions, backend, clock, ticks, disk, dirs, bucket, db, calls,
                 started>>

\* FileSystemEngine.ls(path) of a directory that exists, with the entries
\* that readdir gives
CodecFsLs ==
    /\ codec.op = "ls" /\ codec.stage = "input"
    /\ codec' = [codec EXCEPT !.stage = "listed",
                              !.listing = FsLs(World(NoFiles, {"root"}, NoFiles), "root",
                                               codec.entries).value]
    /\ UNCHANGED <<tempFileOptions, backend, clock, ticks, disk, dirs, bucket, db, calls,
                   started>>

\* FileBasedStorageEngine.list() of either engine, for a metadata folder that
\* exists and whose entries are given by readdir or by listObjects
CodecListEntries ==
    /\ codec.op = "ls" /\ codec.stage = "input"
    /\ \E b \in {"fs", "s3"} :
           codec' = [codec EXCEPT
                        !.stage = "identified", !.engine = b,
                        !.identifiers = list(b, World(NoFiles, {MetadataFolder}, NoFiles),
                                             codec.entries, "ok").value]
    /\ UNCHANGED <<tempFileOptions, backend, clock, ticks, disk, dirs, bucket, db, calls,
                   started>>

CodecNext ==
    \/ CodecFsLs
    \/ CodecListEntries
    \/ CodecFilename
    \/ CodecGetIdentifier
    \/ CodecLs
    \/ CodecList
    \/ CodecToJSON
    \/ CodecFromJson

CodecSpec == CodecInit /\ [][CodecNext]_vars

(***************************************************************************)
(* C16, as claimed: for every non-empty sequence of table names that avoid *)
(* the join separator and ".", every timestamp with second precision and   *)
(* every extension ext, getIdentifier(identifier.filename(ext)) has the    *)
(* same table names in the same order and the same timestamp.              *)
(***************************************************************************)
C16_Avoids(name, text) == IndexOf(name, text) = -1

C16_Parsed(via) ==
    /\ codec.op = "identifier"
    /\ codec.stage = "parsed"
    /\ codec.via = via
    /\ codec.identifier.tablenames # << >>
    /\ codec.identifier.date.ms = 0

C16_Same ==
    /\ codec.parsed.tablenames = codec.identifier.tablenames
    /\ codec.parsed.date = codec.identifier.date

C16_Original ==
    /\ C16_Parsed("getIdentifier")
    /\ \A n \in 1..Len(codec.identifier.tablenames) :
           /\ C16_Avoids(codec.identifier.tablenames[n], NameSeparator)
           /\ C16_Avoids(codec.identifier.tablenames[n], Dot)
    => C16_Same

(***************************************************************************)
(* C16, amended: for every non-empty sequence of table names that do not   *)
(* contain "--" and do not begin or end with "-", and every timestamp with *)
(* second precision, getIdentifier(identifier.filename("")) has the same   *)
(* table names in the same order and the same timestamp; for a non-empty   *)
(* extension the same holds of getIdentifier applied to the filename that  *)
(* ls has split from the extension, which is how list() parses a name.     *)
(***************************************************************************)
C16_IdentifierRoundTrip ==
    /\ \/ C16_Parsed("getIdentifier") /\ codec.extension = NoExtension
       \/ C16_Parsed("list") /\ codec.extension # NoExtension
    /\ C8_PlainNames(codec.identifier.tablenames)
    => C16_Same

\* two table names, one of them with a dot and one with a hyphen inside,
\* were written with the extension .snapshot and parsed as list() does
C16_Witness ==
    /\ C16_Parsed("list")
    /\ codec.extension = SnapshotExtension
    /\ C8_PlainNames(codec.identifier.tablenames)
    /\ Len(codec.identifier.tablenames) > 1
    /\ \E n \in 1..Len(codec.identifier.tablenames) :
           ~C16_Avoids(codec.identifier.tablenames[n], Dot)
    /\ codec.identifier.date = Moment(StartSecond, 0)

(***************************************************************************)
(* C17: for every metadata record m whose stats and metadata are           *)
(* JSON-representable, nested arrays and objects included,                 *)
(* fromJson(toJSON(m)) has stats and metadata equal to those of m and an   *)
(* identifier whose encoding is the encoding of m.identifier.              *)
(***************************************************************************)
RECURSIVE C17_Representable(_)
C17_Representable(value) ==
    IF value.t = "arr"
    THEN \A n \in 1..Len(value.v) : C17_Representable(value.v[n])
    ELSE IF value.t = "obj"
    THEN \A k \in DOMAIN value.v : C17_Representable(value.v[k])
    ELSE ~IsUndefined(value)

C17_RepresentableObject(object) == \A k \in DOMAIN object : C17_Representable(object[k])

C17_Decoded ==
    /\ codec.op = "metadata"
    /\ codec.stage = "decoded"
    /\ C17_RepresentableObject(codec.record.stats)
    /\ C17_RepresentableObject(codec.record.metadata)

C17_MetadataRoundTrip ==
    C17_Decoded =>
        /\ codec.decoded.stats = codec.record.stats
        /\ codec.decoded.metadata = codec.record.metadata
        /\ Encoding(codec.decoded.identifier) = Encoding(codec.record.identifier)

\* a record with an object nested in its metadata, a number in its stats and
\* a timestamp between two seconds went to JSON and back
C17_Witness ==
    /\ C17_Decoded
    /\ \E k \in DOMAIN codec.record.metadata : codec.record.metadata[k].t = "obj"
    /\ \E k \in DOMAIN codec.record.stats : codec.record.stats[k].t = "num"
    /\ codec.record.identifier.date.ms # 0

(***************************************************************************)
(* C18, as claimed: the canonical encoding of an identifier is its table   *)
(* names joined by "-->", then ".", then the capture time formatted        *)
(* YYYYMMDD-HHmmss, then the extension; storing the tables table_a and     *)
(* table_b at 2016-02-01T00:00:00Z yields the metadata key                 *)
(* table_a-->table_b.20160201-000000.metadata.                             *)
(***************************************************************************)
\* the three capture times of the inputs, formatted by hand
C18_DateText(date) ==
    IF date.sec = 0 THEN <<"2", "0", "1", "6", "0", "2", "0", "1", "-", "0", "0", "0", "0", "0", "0">>
    ELSE IF date.sec = StartSecond THEN <<"2", "0", "1", "6", "0", "2", "0", "1", "-", "2", "3", "5", "9", "5", "9">>
    ELSE <<"2", "0", "1", "6", "0", "2", "0", "2", "-", "0", "1", "0", "1", "0", "1">>

C18_Encoded ==
    /\ codec.op = "identifier"
    /\ codec.stage = "encoded"

C18_Scenario ==
    /\ codec.identifier.tablenames = ScenarioTables
    /\ codec.identifier.date.sec = 0

C19_Extension(p) == Descriptor(p.name).extension

C19_DistinctExtensions ==
    \A p, q \in DOMAIN Stored(backend, W) :
        /\ p.folder = q.folder => C19_Extension(p) = C19_Extension(q)
        /\ p.folder = MetadataFolder /\ q.folder = SnapshotFolder =>
               C19_Extension(p) # C19_Extension(q)

(***************************************************************************)
(* C20, as claimed: two identifiers that differ in their table-name        *)
(* sequence or in their capture second never map to the same metadata key  *)
(* or snapshot key.                                                        *)
(***************************************************************************)
CodecIdentifiers ==
    {SnapshotIdentifier(tablenames, date) :
        tablenames \in CodecTableLists, date \in CodecDates}

C20_Differ(one, other) ==
    \/ one.tablenames # other.tablenames
    \/ one.date.sec # other.date.sec

C20_KeysApart(one, other) ==
    /\ path(MetadataFolder, one) # path(MetadataFolder, other)
    /\ path(SnapshotFolder, one) # path(SnapshotFolder, other)

\* the identifier of the state has been given its filename
C20_Keyed ==
    /\ codec.op = "identifier"
    /\ codec.stage = "encoded"
    /\ codec.extension = SnapshotExtension

C20_Original ==
    C20_Keyed =>
        \A other \in CodecIdentifiers :
            C20_Differ(codec.identifier, other) => C20_KeysApart(codec.identifier, other)

(***************************************************************************)
(* C20, amended: two identifiers whose table-name sequences are not empty  *)
(* and hold no name that contains "--" or begins or ends with "-", and     *)
(* that differ in their table-name sequence or in their capture second,    *)
(* never map to the same metadata key or snapshot key.                     *)
(***************************************************************************)
C20_SoleIdentity ==
    C20_Keyed /\ C8_PlainNames(codec.identifier.tablenames) =>
        \A other \in CodecIdentifiers :
            C8_PlainNames(other.tablenames) /\ C20_Differ(codec.identifier, other)
                => C20_KeysApart(codec.identifier, other)

\* an identifier of two tables, one with a hyphen in its name, has its keys
C20_Witness ==
    /\ C20_Keyed
    /\ C8_PlainNames(codec.identifier.tablenames)
    /\ Len(codec.identifier.tablenames) > 1
    /\ \E n \in 1..Len(codec.identifier.tablenames) :
           ~C16_Avoids(codec.identifier.tablenames[n], <<"-">>)


(***************************************************************************)
(* C21: creating an identifier from an empty sequence of table names       *)
(* fails; so a storeSnapshot call with an empty table list is rejected,    *)
(* dbEngine.dump is never invoked for it and no step of it writes to the   *)
(* storage backend.                                                        *)
(***************************************************************************)
C21_EmptyTableListRejected ==
    /\ [](\A i \in Slots :
              calls[i].kind = "store" /\ calls[i].tables = << >> =>
                  /\ ~Invoked(calls[i], "dump")
                  /\ calls[i].identifier = NoValue
                  /\ Settled(calls[i]) /\ calls[i].settled = "rejected")
    /\ [][\A i \in Slots :
              /\ calls'[i].kind = "store"
              /\ calls'[i].tables = << >>
              /\ calls'[i].trace # calls[i].trace
              => Stored(backend, W)' = Stored(backend, W)]_vars

(***************************************************************************)
(* C22: parsing a stored name whose datetime segment does not match        *)
(* YYYYMMDD-HHmmss fails, and list() fails as a whole when the metadata    *)
(* folder holds such an entry: it returns no identifier for the entry and  *)
(* does not skip it.                                                       *)
(***************************************************************************)
\* the text after the last "." of a name has the form of a timestamp
C22_MatchesFormat(name) ==
    LET segment == SubstrFrom(name, LastIndexOf(name, <<".">>) + 1)
    IN  /\ Len(segment) = 15
        /\ segment[9] = "-"
        /\ \A k \in (1..15) \ {9} : IsDigit(segment[k])

\* a backend whose metadata folder holds one entry of the given name
C22_World(name) ==
    LET files == Put(NoFiles, [folder |-> MetadataFolder, name |-> name], EmptyFile)
    IN  World(files, {MetadataFolder}, files)

\* the result is an identifier, not a failure
C22_IsIdentifier(result) == DOMAIN result = {"tablenames", "date"}

C22_MalformedEntryFails ==
    /\ /\ codec.op = "identifier"
       /\ codec.stage = "parsed"
       /\ codec.via = "getIdentifier"
       /\ ~C22_MatchesFormat(codec.text)
       => ~C22_IsIdentifier(codec.parsed)
    /\ /\ codec.op = "identifier"
       /\ codec.stage = "encoded"
       /\ ~C22_MatchesFormat(Descriptor(codec.text).filename)
       => \A b \in {"fs", "s3"} : ~list(b, C22_World(codec.text), <<codec.text>>, "ok").ok

(***************************************************************************)
(* C23: getIdentifier applied to a name of the form                        *)
(* <table name>.<YYYYMMDD-HHmmss> splits the name at its last ".": a       *)
(* single table name that itself holds "." and single "-" characters is    *)
(* returned unchanged as the only table name, and the timestamp is read as *)
(* that second of UTC.                                                     *)
(***************************************************************************)
\* one table name without "--" was written without an extension and parsed
C23_Case ==
    /\ codec.op = "identifier"
    /\ codec.stage = "parsed"
    /\ codec.via = "getIdentifier"
    /\ codec.extension = NoExtension
    /\ Len(codec.identifier.tablenames) = 1
    /\ C16_Avoids(codec.identifier.tablenames[1], <<"-", "-">>)

C23_SplitsAtLastDot ==
    C23_Case =>
        /\ codec.parsed.tablenames = <<codec.identifier.tablenames[1]>>
        /\ codec.parsed.date.valid
        /\ codec.parsed.date.sec = codec.identifier.date.sec
        /\ codec.text = <<"a", "-", "b", ".", "c", ".", "2", "0", "1", "6", "0", "2", "0", "2", "-", "0", "1", "0", "1", "0", "1">>
               => /\ codec.parsed.tablenames = <<<<"a", "-", "b", ".", "c">>>>
                  /\ codec.parsed.date.sec = SecondsPerDay + SecondsPerHour + SecondsPerMinute + 1

\* the name a-b.c.20160202-010101 was parsed
C23_Witness ==
    /\ C23_Case
    /\ codec.text = <<"a", "-", "b", ".", "c", ".", "2", "0", "1", "6", "0", "2", "0", "2", "-", "0", "1", "0", "1", "0", "1">>

(***************************************************************************)
(* C24: saveMetadata(m) overwrites the metadata entry of m.identifier if   *)
(* there is one: when it has succeeded, the entry holds the document of m  *)
(* and a following loadMetadata returns the stats and the metadata of m    *)
(* (as JSON keeps them: equal to those of m when no property of them is    *)
(* undefined), no other entry of the backend has changed, and the          *)
(* operation has returned m unchanged.                                     *)
(***************************************************************************)
\* the step in which the saveMetadata of the storeSnapshot call i succeeds
C24_Saved(i) ==
    /\ calls[i].kind = "store"
    /\ calls[i].pc = "saveMetadata"
    /\ HasEvent(calls'[i], "saveMetadata", "ok")

C24_Overwrites(i) ==
    LET m == StoredData(calls[i])
        key == path(MetadataFolder, m.identifier)
        before == Stored(backend, W)
        after == Stored(backend, World(disk', dirs', bucket'))
        loaded == loadMetadata(backend, World(disk', dirs', bucket'), m.identifier, "ok")
    IN  /\ DOMAIN after = DOMAIN before \cup {key}
        /\ \A p \in DOMAIN before \ {key} : after[p] = before[p]
        /\ after[key] = toJSON(m)
        /\ loaded.ok
        /\ loaded.value.stats = JsonRoundTrip(m.stats)
        /\ loaded.value.metadata = JsonRoundTrip(m.metadata)
        /\ C8_JsonRepresentable(m.metadata) => loaded.value.metadata = m.metadata
        /\ calls'[i].value = m

C24_SaveMetadataOverwrites == [][\A i \in Slots : C24_Saved(i) => C24_Overwrites(i)]_vars

\* two storeSnapshot calls with different metadata succeeded under the same
\* key, and the entry holds the metadata of the second call
C24_Witness ==
    \E i, j \in Slots :
        /\ calls[i].kind = "store" /\ calls[i].settled = "fulfilled"
        /\ calls[j].kind = "store" /\ calls[j].settled = "fulfilled"
        /\ calls[i].seq < calls[j].seq
        /\ Encoding(calls[i].identifier) = Encoding(calls[j].identifier)
        /\ calls[j].userMetadata = MetaMy
        /\ calls[i].userMetadata = MetaOffset
        /\ NoneInFlight
        /\ MetadataNow(calls[j].identifier).ok
        /\ MetadataNow(calls[j].identifier).value.metadata = MetaMy

(***************************************************************************)
(* C25: saveSnapshot(id, localSourcePath) stores the content of the local  *)
(* file under the snapshot key of id: once it has succeeded,               *)
(* loadSnapshot(id, dest) returns a local path whose content is the        *)
(* content that localSourcePath had when it was saved, also after the      *)
(* local source file has been deleted.                                     *)
(***************************************************************************)
C25_Destination == [folder |-> "tmp", name |-> <<"d">>]

\* the content of the local file that loadSnapshot(identifier, dest) gives in world w
C25_Loaded(w, identifier) ==
    LET r == loadSnapshot(backend, w, identifier, C25_Destination, "ok")
    IN  IF r.ok /\ Exists(r.world.disk, r.value) THEN r.world.disk[r.value]
        ELSE [type |-> "none"]

\* the saveSnapshot of the storeSnapshot call c has succeeded, and no call
\* was started after c
C25_Saved(c) ==
    /\ c.kind = "store"
    /\ c.seq = started
    /\ HasEvent(c, "saveSnapshot", "ok")

C25_SnapshotContentKept ==
    /\ [](\A i \in Slots :
              C25_Saved(calls[i]) =>
                  /\ C25_Loaded(W, calls[i].identifier).type = "dump"
                  /\ calls[i].tables # << >> =>
                         C25_Loaded(W, calls[i].identifier) = DumpFile(calls[i].tables))
    /\ [][\A i \in Slots :
              /\ calls[i].kind = "store"
              /\ calls[i].pc = "saveSnapshot"
              /\ HasEvent(calls'[i], "saveSnapshot", "ok")
              => /\ Exists(disk, calls[i].tempPath)
                 /\ C25_Loaded(World(disk', dirs', bucket'), calls[i].identifier)
                        = disk[calls[i].tempPath]]_vars

\* the snapshot of two tables can be loaded after the call has settled and
\* its temporary file is gone
C25_Witness ==
    \E i \in Slots :
        /\ C25_Saved(calls[i])
        /\ Settled(calls[i])
        /\ calls[i].unlinked = "ok"
        /\ ~Exists(disk, calls[i].tempPath)
        /\ calls[i].tables = <<TableA, TableB>>
        /\ C25_Loaded(W, calls[i].identifier) = DumpFile(<<TableA, TableB>>)

(***************************************************************************)
(* C26: the same sequence of operations with the same inputs gives the     *)
(* same observable results on the filesystem backend and on the S3         *)
(* backend.  The case stated: on a new backend, a storeSnapshot whose      *)
(* dump is refused, followed by listSnapshots or by deleteSnapshot of the  *)
(* identifier.  A storeSnapshot that is rejected at the dump writes        *)
(* nothing, so after it the storage of either backend is as new, and the   *)
(* second call must end on one backend as it ends on the other.            *)
(***************************************************************************)
C26_OtherBackend == IF backend = "fs" THEN "s3" ELSE "fs"

\* the second call of a behaviour, settled without a fault of the network,
\* after a first call that was a storeSnapshot rejected at the dump
C26_Case(first, second, kind) ==
    /\ first.kind = "store"
    /\ first.seq = 1
    /\ Settled(first)
    /\ first.failedAt = "dump"
    /\ second.kind = kind
    /\ second.seq = 2
    /\ Settled(second)
    /\ second.reason # "fault"

\* does deleteSnapshot(identifier) succeed on backend b whose storage is as in w
C26_DeleteSucceeds(b, w, identifier) ==
    LET r == deleteMetadata(b, w, identifier, "ok")
    IN  r.ok /\ deleteSnapshot(b, r.world, identifier, "ok").ok

C26_BackendsInterchangeable ==
    \A i, j \in Slots :
        /\ C26_Case(calls[i], calls[j], "list") =>
               (calls[j].settled = "fulfilled") = list(C26_OtherBackend, W, << >>, "ok").ok
        /\ C26_Case(calls[i], calls[j], "delete") =>
               (calls[j].settled = "fulfilled")
                   = C26_DeleteSucceeds(C26_OtherBackend, W, calls[j].identifier)

(***************************************************************************)
(* C27: if saveSnapshot succeeds and saveMetadata then fails in a          *)
(* storeSnapshot call, the call is rejected and nothing is rolled back:    *)
(* the snapshot object stays in the snapshot folder, the call has written  *)
(* no metadata entry, and (the backend having held nothing when the call   *)
(* began) no metadata entry exists for the identifier and listSnapshots    *)
(* does not return it.                                                     *)
(***************************************************************************)
C27_MetadataEntries(w) ==
    LET files == Stored(backend, w)
    IN  [p \in {q \in DOMAIN files : q.folder = MetadataFolder} |-> files[p]]

\* the saveMetadata of the storeSnapshot call c has failed, and no call was
\* started after c
C27_MetadataFailed(c) ==
    /\ c.kind = "store"
    /\ c.seq = started
    /\ c.failedAt = "saveMetadata"

C27_NotListed(identifier) ==
    \A order \in ListingOrders(backend, W, MetadataFolder) :
        LET r == list(backend, W, order, "ok")
        IN  r.ok => \A n \in 1..Len(r.value) : Encoding(r.value[n]) # Encoding(identifier)

C28_CurrentDir ==
    IF tempFileOptions.dir = "none" THEN DefaultTempDir ELSE tempFileOptions.dir

\* the step is a call of setTempDir(p): the options name p afterwards, and
\* no call and no file has changed
C28_Configured ==
    \A dirPath \in TempDirs :
        tempFileOptions' # tempFileOptions /\ tempFileOptions'.dir = dirPath =>
            /\ tempFileOptions'.prefix = tempFileOptions.prefix
            /\ disk' = disk
            /\ \A i \in Slots :
                   /\ calls'[i].trace = calls[i].trace
                   /\ calls'[i].tempPath = calls[i].tempPath

\* a call that starts gets its path inside the directory of the options
C28_Allocated ==
    \A i \in Slots :
        calls'[i].seq # calls[i].seq /\ UsesTempPath(calls'[i]) =>
            /\ calls'[i].tempPath.folder = C28_CurrentDir
            /\ \A j \in Slots \ {i} :
                   UsesTempPath(calls[j]) => calls[j].tempPath # calls'[i].tempPath

\* a call in flight keeps its path, and its cleanup unlinks that path and
\* no other file
C28_Kept ==
    \A i \in Slots :
        calls'[i].seq = calls[i].seq /\ UsesTempPath(calls[i]) =>
            /\ calls'[i].tempPath = calls[i].tempPath
            /\ calls[i].pc = "unlink" /\ calls'[i].pc = "done" =>
                   /\ ~Exists(disk', calls[i].tempPath)
                   /\ DOMAIN disk' = DOMAIN disk \ {calls[i].tempPath}
                   /\ \A q \in DOMAIN disk' : disk'[q] = disk[q]
                   /\ calls'[i].unlinked = "ok" <=> Exists(disk, calls[i].tempPath)

C28_SetTempDirForNextAllocation ==
    [][C28_Configured /\ C28_Allocated /\ C28_Kept]_vars

\* a call that started in the default directory is about to unlink its
\* temporary file there, while setTempDir has named another directory and a
\* later call has its path inside that one
C28_Witness ==
    \E i, j \in Slots :
        /\ UsesTempPath(calls[i]) /\ UsesTempPath(calls[j])
        /\ calls[i].seq < calls[j].seq
        /\ calls[i].pc = "unlink"
        /\ Exists(disk, calls[i].tempPath)
        /\ calls[i].tempPath.folder = DefaultTempDir
        /\ tempFileOptions.dir = "p"
        /\ calls[j].tempPath.folder = "p"

(***************************************************************************)
(* C29: no step is retried.  Within one storeSnapshot, restoreSnapshot or  *)
(* deleteSnapshot call every operation of the database engine and of the   *)
(* storage engine is invoked at most once, and a call that fails settles   *)
(* exactly once, with a single rejection.                                  *)
(***************************************************************************)
C29_EngineSteps ==
    {"dump", "saveSnapshot", "saveMetadata", "loadMetadata", "loadSnapshot", "restore",
     "deleteMetadata", "deleteSnapshot"}

C29_Count(trace, event) == Cardinality({k \in 1..Len(trace) : trace[k] = event})

C29_Failures(trace) ==
    Cardinality({k \in 1..Len(trace) :
                    trace[k][1] \in C29_EngineSteps /\ trace[k][2] = "fail"})

C29_Chained(c) == c.kind \in {"store", "restore", "delete"}

C29_OnceEach(c) ==
    /\ \A step \in C29_EngineSteps :
           /\ C29_Count(c.trace, Event(step, "begin")) <= 1
           /\ C29_Count(c.trace, Event(step, "ok")) + C29_Count(c.trace, Event(step, "fail"))
                  <= C29_Count(c.trace, Event(step, "begin"))
    /\ C29_Failures(c.trace) <= 1
    /\ C29_Failures(c.trace) = 1 =>
           /\ HasEvent(c, c.failedAt, "fail")
           /\ c.trace[Len(c.trace)][1] \in {c.failedAt, "unlink"}
           /\ Settled(c) => c.settled = "rejected"
    /\ Settled(c) /\ c.settled = "rejected" => C29_Failures(c.trace) = 1

C29_NoRetry ==
    /\ [](\A i \in Slots : C29_Chained(calls[i]) => C29_OnceEach(calls[i]))
    /\ [][\A i \in Slots :
              /\ C29_Chained(calls[i])
              /\ Settled(calls[i])
              /\ calls'[i].seq = calls[i].seq
              => /\ calls'[i].trace = calls[i].trace
                 /\ calls'[i].settled = calls[i].settled
                 /\ calls'[i].reason = calls[i].reason]_vars

\* a restoreSnapshot call was rejected by the database restore, after
\* loadMetadata and loadSnapshot had each been invoked once
C29_Witness ==
    \E i \in Slots :
        /\ calls[i].kind = "restore"
        /\ Settled(calls[i])
        /\ calls[i].settled = "rejected"
        /\ calls[i].failedAt = "restore"
        /\ C29_Count(calls[i].trace, Event("restore", "begin")) = 1
        /\ C29_Count(calls[i].trace, Event("loadSnapshot", "begin")) = 1

(***************************************************************************)
(* C30: ls of the filesystem backend splits every directory entry at its   *)
(* last "." into name and extension and leaves out, without failing, every *)
(* entry whose name holds no "." (such as a subdirectory called nested):   *)
(* for a root that holds plain.ext and the directory nested it gives only  *)
(* the descriptor of plain.ext.                                            *)
(***************************************************************************)
\* the descriptor of an entry that holds a "."
C30_Split(entry) ==
    LET index == LastIndexOf(entry, <<".">>)
    IN  [filename |-> SubSeq(entry, 1, index), extension |-> SubSeq(entry, index + 2, Len(entry))]

C30_HasDot(entry) == \E k \in 1..Len(entry) : entry[k] = "."

C30_Expected(entries) ==
    LET kept == SelectSeq(entries, C30_HasDot)
    IN  [n \in 1..Len(kept) |-> C30_Split(kept[n])]

C30_DotlessEntriesExcluded ==
    codec.op = "ls" /\ codec.stage = "listed" =>
        /\ codec.listing = C30_Expected(codec.entries)
        /\ {codec.entries[n] : n \in 1..Len(codec.entries)} = {PlainExt, Nested} =>
               codec.listing = <<[filename |-> <<"p", "l", "a", "i", "n">>,
                                  extension |-> <<"e", "x", "t">>]>>

(***************************************************************************)
(* C31: list() ignores the directory-only entries of the metadata folder   *)
(* on every backend: an entry whose extension is empty (a name without a   *)
(* ".", such as a subdirectory) gives no identifier in the result, so the  *)
(* result has one identifier for each entry that has an extension, in the  *)
(* order of the entries, on the filesystem engine and on the S3 engine.    *)
(***************************************************************************)
C31_HasExtension(entry) ==
    \E k \in 1..(Len(entry) - 1) : entry[k] = "."

\* the part of an entry before its last "."
C31_Stem(entry) == SubSeq(entry, 1, LastIndexOf(entry, <<".">>))

C31_Expected(entries) ==
    LET kept == SelectSeq(entries, C31_HasExtension)
    IN  [n \in 1..Len(kept) |-> getIdentifier(C31_Stem(kept[n]))]

C31_DirectoryEntriesIgnored ==
    codec.op = "ls" /\ codec.stage = "identified" =>
        /\ codec.identifiers = C31_Expected(codec.entries)
        /\ codec.entries = <<Nested>> => codec.identifiers = << >>

(***************************************************************************)
(* C32: on the filesystem engine a write (uploadData) and a file copy      *)
(* (uploadFile) make the folder of the destination when it is absent, go   *)
(* on when the folder is there already, and are rejected, writing nothing, *)
(* when the folder is absent and could not be made; so saveSnapshot and    *)
(* saveMetadata succeed on a root that has no metadata and no snapshot     *)
(* folder yet.                                                             *)
(***************************************************************************)
\* saveSnapshot and then saveMetadata of the storeSnapshot call c, invoked
\* in the world w with the given outcomes of the two mkdir
C32_SaveSnapshot(c, w, mkdir) ==
    saveSnapshot("fs", StoreInvoke(c, "saveSnapshot", w, mkdir), c.identifier, c.tempPath, "ok")

C32_SaveMetadata(c, w, mkdir) ==
    saveMetadata("fs", StoreInvoke(c, "saveMetadata", w, mkdir), StoredData(c), "ok")

C32_Written(w, folder, c) ==
    /\ folder \in w.dirs
    /\ Exists(w.disk, path(folder, c.identifier))

C32_CreatesParentDirectory ==
    backend = "fs" =>
        \A i \in Slots :
            LET c == calls[i]
            IN  /\ c.kind = "store" /\ c.pc = "dump" =>
                       LET d == dump(db, W, c.tables, c.tempPath, "ok")
                           s == C32_SaveSnapshot(c, d.world, "ok")
                           m == C32_SaveMetadata(c, s.world, "ok")
                           t == C32_SaveSnapshot(c, d.world, "fault")
                       IN  d.ok =>
                               /\ s.ok /\ C32_Written(s.world, SnapshotFolder, c)
                               /\ m.ok /\ C32_Written(m.world, MetadataFolder, c)
                               /\ s.world.dirs = dirs \cup {SnapshotFolder}
                               /\ m.world.dirs = dirs \cup {SnapshotFolder, MetadataFolder}
                               /\ t.ok = (SnapshotFolder \in dirs)
                               /\ ~t.ok => t.world = d.world
                /\ c.kind = "store" /\ c.pc = "saveSnapshot" =>
                       LET s == saveSnapshot("fs", W, c.identifier, c.tempPath, "ok")
                           n == C32_SaveMetadata(c, s.world, "fault")
                       IN  /\ SnapshotFolder \notin dirs => ~s.ok /\ s.world = W
                           /\ s.ok => n.ok = (MetadataFolder \in dirs)
                           /\ s.ok /\ ~n.ok => n.world = s.world
                /\ c.kind = "store" /\ HasEvent(c, "saveSnapshot", "ok") =>
                       SnapshotFolder \in dirs
                /\ c.kind = "store" /\ HasEvent(c, "saveMetadata", "ok") =>
                       MetadataFolder \in dirs

\* the first call, on a root without folders, has stored a snapshot
C32_Witness ==
    /\ backend = "fs"
    /\ dirs = {SnapshotFolder, MetadataFolder}
    /\ \E i \in Slots :
           /\ calls[i].kind = "store"
           /\ calls[i].seq = 1
           /\ calls[i].settled = "fulfilled"
           /\ Exists(disk, path(SnapshotFolder, calls[i].identifier))
           /\ Exists(disk, path(MetadataFolder, calls[i].identifier))

(***************************************************************************)
(* C33: on the filesystem engine loadSnapshot is the identity on the       *)
(* stored path: it is fulfilled with the path of the stored snapshot file, *)
(* makes no file at the destination it was given and copies nothing, so    *)
(* restoreSnapshot gives dbEngine.restore the stored file itself.          *)
(***************************************************************************)
C33_StoredPath(c) == path(SnapshotFolder, c.storageMetadata.identifier)

C33_LoadSnapshotIsIdentity ==
    /\ [](backend = "fs" =>
              \A i \in Slots :
                  calls[i].kind = "restore" /\ Invoked(calls[i], "restore") =>
                      /\ calls[i].localPath = C33_StoredPath(calls[i])
                      /\ calls[i].localPath # calls[i].tempPath
                      /\ ~Exists(disk, calls[i].tempPath)
                      /\ calls[i].pc = "restore" => calls[i].value = calls[i].localPath)
    /\ [][backend = "fs" =>
              \A i \in Slots :
                  /\ calls[i].kind = "restore"
                  /\ calls[i].pc = "loadSnapshot"
                  /\ calls'[i].trace # calls[i].trace
                  => /\ HasEvent(calls'[i], "loadSnapshot", "ok")
                     /\ calls'[i].pc = "restore"
                     /\ disk' = disk
                     /\ dirs' = dirs]_vars

\* the database was restored from the stored file, and there was no
\* temporary file to unlink
C33_Witness ==
    /\ backend = "fs"
    /\ \E i \in Slots :
           /\ calls[i].kind = "restore"
           /\ calls[i].settled = "fulfilled"
           /\ HasEvent(calls[i], "restore", "ok")
           /\ calls[i].localPath = C33_StoredPath(calls[i])
           /\ Exists(disk, calls[i].localPath)
           /\ calls[i].unlinked = "failed"

(***************************************************************************)
(* C34: temporary paths are owned by one call each: any two storeSnapshot  *)
(* or restoreSnapshot calls, overlapping or not, have different temporary  *)
(* paths, a call that starts gets a path that no call holds and at which   *)
(* no file exists, and a file at the temporary path of a call is removed   *)
(* only by the cleanup of that call, which removes nothing else.           *)
(***************************************************************************)
C34_Distinct ==
    \A i, j \in Slots :
        i # j /\ UsesTempPath(calls[i]) /\ UsesTempPath(calls[j]) =>
            calls[i].tempPath # calls[j].tempPath

C34_Fresh ==
    \A i \in Slots :
        calls'[i].seq # calls[i].seq /\ UsesTempPath(calls'[i]) =>
            /\ ~Exists(disk, calls'[i].tempPath)
            /\ \A j \in Slots : UsesTempPath(calls[j]) => calls[j].tempPath # calls'[i].tempPath

C34_IsCleanup(i) ==
    /\ calls[i].pc = "unlink"
    /\ calls'[i].pc = "done"
    /\ calls'[i].seq = calls[i].seq

C34_OwnCleanupOnly ==
    \A i \in Slots :
        /\ UsesTempPath(calls[i]) /\ Exists(disk, calls[i].tempPath)
           /\ ~Exists(disk', calls[i].tempPath) => C34_IsCleanup(i)
        /\ UsesTempPath(calls[i]) /\ C34_IsCleanup(i) =>
               DOMAIN disk' = DOMAIN disk \ {calls[i].tempPath}

C34_TempPathsExclusive ==
    [](C34_Distinct) /\ [][C34_Fresh /\ C34_OwnCleanupOnly]_vars

\* a later call has settled and its cleanup has removed its temporary file,
\* while the temporary file of an earlier call, still in flight, is there
C34_Witness ==
    \E i, j \in Slots :
        /\ calls[i].kind = "store" /\ calls[j].kind = "store"
        /\ calls[j].seq < calls[i].seq
        /\ Settled(calls[i]) /\ calls[i].unlinked = "ok"
        /\ InFlight(calls[j])
        /\ Exists(disk, calls[j].tempPath)

(***************************************************************************)
(* C35, as claimed: in every reachable state of storeSnapshot and          *)
(* deleteSnapshot calls made one after another, with any step failing, or  *)
(* overlapping while they name pairwise distinct identifiers, every        *)
(* metadata entry has a snapshot entry of the same name, so every          *)
(* identifier that list returns has snapshot data.                         *)
(***************************************************************************)
C35_Paired(w) ==
    \A p \in DOMAIN Stored(backend, w) :
        p.folder = MetadataFolder =>
            Exists(Stored(backend, w), [folder |-> SnapshotFolder, name |-> p.name])

C35_ListedHaveData(w) ==
    \A order \in ListingOrders(backend, w, MetadataFolder) :
        LET r == list(backend, w, order, "ok")
        IN  r.ok => \A n \in 1..Len(r.value) :
                        Exists(Stored(backend, w), path(SnapshotFolder, r.value[n]))

C35_Original == C35_Paired(W) /\ C35_ListedHaveData(W)

(***************************************************************************)
(* C35: the same, for calls whose identifiers, where they differ, also     *)
(* differ in their filename: while every call made so far is known and no  *)
(* two of them name different identifiers with one filename, every         *)
(* metadata entry has a snapshot entry of the same name and every          *)
(* identifier that list returns has snapshot data.                         *)
(***************************************************************************)
\* every call made so far is still in its slot
C35_AllCallsKnown == started = Cardinality({i \in Slots : calls[i].kind # "none"})

C35_Names(c) == c.kind \in {"store", "restore", "delete", "getMetadata"}

C35_KeysApart ==
    \A i, j \in Slots :
        /\ C35_Names(calls[i]) /\ C35_Names(calls[j])
        /\ calls[i].identifier # calls[j].identifier
        => Encoding(calls[i].identifier) # Encoding(calls[j].identifier)

C35_MetadataHasSnapshot ==
    C35_AllCallsKnown /\ C35_KeysApart => C35_Paired(W) /\ C35_ListedHaveData(W)

\* a storeSnapshot call that is still in flight has written its two entries,
\* and a deleteSnapshot call of another identifier, started after it, has
\* succeeded meanwhile
C35_Witness ==
    \E i, j \in Slots :
        /\ calls[i].kind = "store" /\ InFlight(calls[i])
        /\ HasEvent(calls[i], "saveMetadata", "ok")
        /\ calls[j].kind = "delete" /\ calls[j].seq > calls[i].seq
        /\ calls[j].settled = "fulfilled"
        /\ Encoding(calls[j].identifier) # Encoding(calls[i].identifier)
        /\ Exists(Stored(backend, W), path(MetadataFolder, calls[i].identifier))
        /\ Exists(Stored(backend, W), path(SnapshotFolder, calls[i].identifier))

(***************************************************************************)
(* C36: listSnapshots, getMetadata and restoreSnapshot never change the    *)
(* storage: no step of such a call, from its start to its settling and     *)
(* whether it succeeds or fails, adds, removes or changes a metadata entry *)
(* or a snapshot entry or makes a folder; and the cleanup of               *)
(* restoreSnapshot removes the file at the temporary path and no other     *)
(* file, so on the filesystem backend the stored snapshot file that        *)
(* loadSnapshot returned is still there.                                   *)
(***************************************************************************)
C36_Reads(c) == c.kind \in {"list", "getMetadata", "restore"}

\* call i takes a step: it starts, or one of its operations settles
C36_Steps(i) ==
    /\ C36_Reads(calls'[i])
    /\ \/ calls'[i].seq # calls[i].seq
       \/ calls'[i].trace # calls[i].trace

C36_ReadsLeaveStorage ==
    [][\A i \in Slots :
           C36_Steps(i) =>
               /\ Stored(backend, World(disk', dirs', bucket')) = Stored(backend, W)
               /\ dirs' = dirs
               /\ bucket' = bucket
               /\ calls[i].kind = "restore" /\ calls[i].pc = "unlink"
                  /\ calls'[i].seq = calls[i].seq =>
                      /\ DOMAIN disk' = DOMAIN disk \ {calls[i].tempPath}
                      /\ \A p \in DOMAIN disk' : disk'[p] = disk[p]
                      /\ Exists(disk, calls[i].localPath)
                         /\ calls[i].localPath # calls[i].tempPath =>
                             Exists(disk', calls[i].localPath)]_vars

\* a restoreSnapshot of a stored snapshot has loaded the snapshot and has
\* settled, and both entries are there with the dump that was stored
C36_Witness ==
    \E i, j \in Slots :
        /\ calls[j].kind = "store" /\ calls[j].settled = "fulfilled"
        /\ calls[j].tables # << >>
        /\ calls[i].kind = "restore" /\ calls[i].seq > calls[j].seq
        /\ Settled(calls[i])
        /\ calls[i].identifier = calls[j].identifier
        /\ HasEvent(calls[i], "loadSnapshot", "ok")
        /\ Exists(Stored(backend, W), path(MetadataFolder, calls[j].identifier))
        /\ Exists(Stored(backend, W), path(SnapshotFolder, calls[j].identifier))
        /\ Stored(backend, W)[path(SnapshotFolder, calls[j].identifier)]
               = DumpFile(calls[j].tables)

(***************************************************************************)
(* C37: when deleteMetadata fails in deleteSnapshot(id), for example       *)
(* because no metadata entry exists for id, deleteSnapshot of the storage  *)
(* engine is never invoked and the call is rejected, with the storage left *)
(* as it was; so on the filesystem backend a snapshot entry that has no    *)
(* metadata entry (orphaned by a failed saveMetadata, or left by a failed  *)
(* snapshot delete) is still there after every deleteSnapshot(id) call.    *)
(***************************************************************************)
C37_MetadataDeleteFailed(c) ==
    c.kind = "delete" /\ HasEvent(c, "deleteMetadata", "fail")

\* the deleteMetadata of call i settles
C37_Settles(i) ==
    /\ calls[i].kind = "delete"
    /\ calls[i].pc = "deleteMetadata"
    /\ calls'[i].seq = calls[i].seq
    /\ calls'[i].trace # calls[i].trace

C37_Orphan(identifier) ==
    /\ Exists(Stored(backend, W), path(SnapshotFolder, identifier))
    /\ ~Exists(Stored(backend, W), path(MetadataFolder, identifier))

C37_FailedMetadataDeleteAborts ==
    /\ [](\A i \in Slots :
              C37_MetadataDeleteFailed(calls[i]) =>
                  /\ ~Invoked(calls[i], "deleteSnapshot")
                  /\ Settled(calls[i])
                  /\ calls[i].settled = "rejected"
                  /\ calls[i].failedAt = "deleteMetadata")
    /\ [][\A i \in Slots :
              /\ C37_Settles(i) /\ C37_MetadataDeleteFailed(calls'[i]) =>
                     Stored(backend, World(disk', dirs', bucket')) = Stored(backend, W)
              /\ C37_Settles(i) /\ backend = "fs" /\ C37_Orphan(calls[i].identifier) =>
                     /\ C37_MetadataDeleteFailed(calls'[i])
                     /\ Exists(Stored(backend, World(disk', dirs', bucket')),
                               path(SnapshotFolder, calls[i].identifier))]_vars

\* on the filesystem backend a storeSnapshot call left a snapshot entry
\* without metadata, a deleteSnapshot of its identifier was rejected at
\* deleteMetadata, and the snapshot entry is still there
C37_Witness ==
    /\ backend = "fs"
    /\ \E i, j \in Slots :
           /\ calls[j].kind = "store" /\ calls[j].failedAt = "saveMetadata"
           /\ calls[i].kind = "delete" /\ calls[i].seq > calls[j].seq
           /\ calls[i].identifier = calls[j].identifier
           /\ Settled(calls[i]) /\ calls[i].settled = "rejected"
           /\ C37_MetadataDeleteFailed(calls[i])
           /\ C37_Orphan(calls[i].identifier)

(***************************************************************************)
(* C38: the promise that storeSnapshot or restoreSnapshot returns settles  *)
(* only after the unlink of the temporary path has completed: while the    *)
(* cleanup of a call is still to run or pending the call is pending, and a *)
(* call that is fulfilled or rejected has its unlink, successful or not,   *)
(* as the last step of its record.                                         *)
(***************************************************************************)
C38_CleanupCompleted(c) ==
    /\ Len(c.trace) >= 2
    /\ c.trace[Len(c.trace)] \in {Event("unlink", "ok"), Event("unlink", "fail")}
    /\ c.trace[Len(c.trace) - 1] = Event("unlink", "begin")
    /\ c.unlinked \in {"ok", "failed"}

C38_SettlesAfterCleanup ==
    \A i \in Slots :
        UsesTempPath(calls[i]) =>
            /\ calls[i].settled # "pending" =>
                   Settled(calls[i]) /\ C38_CleanupCompleted(calls[i])
            /\ InFlight(calls[i]) =>
                   calls[i].settled = "pending" /\ ~C38_CleanupCompleted(calls[i])
            /\ Settled(calls[i]) => calls[i].settled \in {"fulfilled", "rejected"}

\* the pipeline of a storeSnapshot call has succeeded and its cleanup is
\* pending, with the temporary file still there: the call is not settled
C38_Witness ==
    \E i \in Slots :
        /\ calls[i].kind = "store"
        /\ calls[i].pc = "unlink"
        /\ HasEvent(calls[i], "saveMetadata", "ok")
        /\ calls[i].settled = "pending"
        /\ Exists(disk, calls[i].tempPath)

(***************************************************************************)
(* C39: on the filesystem backend listSnapshots is rejected with the error *)
(* of the directory read (ENOENT) as long as the metadata folder does not  *)
(* exist, that is, until a saveMetadata has made it; once the folder       *)
(* exists listSnapshots is fulfilled, with one identifier for each entry,  *)
(* and so with the empty sequence exactly when the folder holds no entry.  *)
(***************************************************************************)
\* the list of call i settles
C39_Settles(i) ==
    /\ backend = "fs"
    /\ calls[i].kind = "list"
    /\ calls[i].pc = "list"
    /\ calls'[i].seq = calls[i].seq
    /\ calls'[i].trace # calls[i].trace

C39_Entries == NamesIn(Stored("fs", W), MetadataFolder)

C39_ListOfMissingFolderRejects ==
    /\ [][\A i \in Slots :
              C39_Settles(i) =>
                  IF MetadataFolder \notin dirs
                  THEN /\ calls'[i].settled = "rejected"
                       /\ calls'[i].failedAt = "list"
                       /\ calls'[i].reason = "ENOENT"
                       /\ C39_Entries = {}
                  ELSE /\ calls'[i].settled = "fulfilled"
                       /\ Len(calls'[i].value) = Cardinality(C39_Entries)
                       /\ (calls'[i].value = << >>) = (C39_Entries = {})]_vars
    /\ [][MetadataFolder \notin dirs /\ MetadataFolder \in dirs' =>
              \E i \in Slots :
                  /\ calls[i].kind = "store"
                  /\ calls[i].pc = "saveSnapshot"
                  /\ calls'[i].pc = "saveMetadata"]_vars

\* a snapshot was saved but the metadata folder could not be made, and the
\* listSnapshots that followed was rejected
C39_Witness ==
    /\ backend = "fs"
    /\ MetadataFolder \notin dirs
    /\ SnapshotFolder \in dirs
    /\ \E i \in Slots :
           /\ calls[i].kind = "list"
           /\ Latest(calls[i])
           /\ calls[i].settled = "rejected"
           /\ calls[i].reason = "ENOENT"
=============================================================================
